---- MODULE Spec2Model ----
(***************************************************************************)
(* RocketShip backend (backend/main.py): the run state machine, the        *)
(* artifact store, the debate engine and the skip controller of one run.   *)
(* Stage names are the ones the code persists: "starting", "rocket"        *)
(* (scoring), "debate_ready", "debate", "optimize" (optimizing), "done",   *)
(* "error".                                                                *)
(***************************************************************************)
EXTENDS Integers, Sequences, FiniteSets, TLC

VARIABLES
    status,        \* status.json of the run (stage "none": the file does not exist)
    skippedJson,   \* skipped.json: the list of skipped tickers and their reasons
    universeJson,  \* universe.json: None or Some(list of tickers)
    rocketScores,  \* rocket_scores.json: None or Some(list of score records)
    finalBuys,     \* final_buys.json: None or Some(list of items)
    debateFiles,   \* the per-candidate artifacts under debate/: set of <<ticker, kind>>
    summaryJson,   \* debate/debate_summary.json: None or Some(summary)
    portfolio,     \* portfolio.json: None or Some(optimizer method)
    workers,       \* the jobs submitted to the thread pool, in submission order
    skipReq,       \* the skip handler between its read and its write of status.json
    resp,          \* the last HTTP response: request and status code
    useRealDebate, \* DEEPSEEK_API_KEY configured (len >= 20)
    calls,         \* collaborator calls recorded per ticker
    store          \* the file system under one artifact name, at inode granularity

vars == <<status, skippedJson, universeJson, rocketScores, finalBuys, debateFiles,
          summaryJson, portfolio, workers, skipReq, resp, useRealDebate, calls, store>>

-----------------------------------------------------------------------------
(* Bounds of the model *)

MaxTickers == 2
MaxDebateStarts == 1
MaxOptimizeStarts == 1

(* Program constants *)

SP500_ESTIMATE == 493
MAX_WORKERS == 4
TOP_N == 23
EDGE_END == 28
BEST_OF_WORST_N == 2
MIN_BUY == 8
MAX_BUY == 12
MOCK_BUY_SCORE == 70
MOCK_HOLD_SCORE == 50
MOCK_CONF_MAX == 85
MOCK_CONF_MIN == 20

-----------------------------------------------------------------------------
(* Values *)

None == <<>>
Some(x) == <<x>>
IsSome(o) == o # <<>>
Val(o) == o[1]

Min(a, b) == IF a <= b THEN a ELSE b
Max(a, b) == IF a >= b THEN a ELSE b

\* Raw ticker strings a client may send, and str.upper() on them.
RawTickers == {"a", "A", "B"}
Upper(t) == IF t = "a" THEN "A" ELSE t
Tickers == {Upper(t) : t \in RawTickers}

\* Scores the scoring collaborator may return.
ScoreChoices == {45, 75}

SeqsUpTo(S, n) == UNION {[1..k -> S] : k \in 0..n}

RECURSIVE SeqToSet(_)
SeqToSet(s) == IF s = <<>> THEN {} ELSE {Head(s)} \cup SeqToSet(Tail(s))

\* list.remove(x): drops the first occurrence.
RECURSIVE RemoveFirst(_, _)
RemoveFirst(s, x) ==
    IF s = <<>> THEN <<>>
    ELSE IF Head(s) = x THEN Tail(s)
    ELSE <<Head(s)>> \o RemoveFirst(Tail(s), x)

\* The two sort keys of the code, as "x goes before y":
\*   "score":      key=lambda x: x['rocket_score'], reverse=True
\*   "conviction": key=lambda x: (-confidence, -rocket_score)
\*   "weight":     key=lambda x: x['weight'], reverse=True
Before(x, y, key) ==
    IF key = "score" THEN x.rocket_score > y.rocket_score
    ELSE IF key = "weight" THEN x.weight > y.weight
    ELSE \/ x.confidence > y.confidence
         \/ x.confidence = y.confidence /\ x.rocket_score > y.rocket_score

\* Stable insertion of x into a sorted list (x goes after its equals).
RECURSIVE InsertStable(_, _, _)
InsertStable(s, x, key) ==
    IF s = <<>> THEN <<x>>
    ELSE IF Before(x, Head(s), key) THEN <<x>> \o s
    ELSE <<Head(s)>> \o InsertStable(Tail(s), x, key)

\* sorted(...) / list.sort(...): stable.
RECURSIVE SortStable(_, _)
SortStable(s, key) ==
    IF s = <<>> THEN <<>>
    ELSE InsertStable(SortStable(SubSeq(s, 1, Len(s) - 1), key), s[Len(s)], key)

-----------------------------------------------------------------------------
(* Artifact store: status.json *)

NoStatus ==
    [stage |-> "none", done |-> 0, total |-> 0, current |-> "", errors |-> <<>>,
     skipped |-> None]

\* write_status: the skipped key is present only when a list is passed.
StatusRecord(stage, done, total, current, errors, skipped) ==
    [stage |-> stage, done |-> done, total |-> total, current |-> current,
     errors |-> errors, skipped |-> skipped]

\* skipped.json before the first skip: read as no tickers and no reasons.
NoSkipped == [tickers |-> <<>>, reasons |-> [t \in {} |-> ""]]

\* list(current): the members of a set, each once, in the order the set yields.
RECURSIVE ListOf(_)
ListOf(S) ==
    IF S = {} THEN <<>>
    ELSE LET x == CHOOSE y \in S : TRUE IN <<x>> \o ListOf(S \ {x})

\* set(t.upper() for t in tickers)
SkippedSetOf(doc) == {Upper(doc.tickers[k]) : k \in DOMAIN doc.tickers}

\* read_skipped_set: the persisted tickers, upper-cased; the empty set when
\* skipped.json does not exist.
ReadSkippedSet == SkippedSetOf(skippedJson)

\* add_skipped without the set: the ticker is appended to the persisted list.
AddSkippedAppending(ticker, reason) ==
    [tickers |-> Append(skippedJson.tickers, Upper(ticker)),
     reasons |-> [t \in DOMAIN skippedJson.reasons \cup {Upper(ticker)} |->
                     IF t = Upper(ticker) THEN reason ELSE skippedJson.reasons[t]]]

\* add_skipped without the read of skipped.json: only the new ticker is persisted.
AddSkippedReplacing(ticker, reason) ==
    [tickers |-> <<Upper(ticker)>>,
     reasons |-> [t \in {Upper(ticker)} |-> reason]]

\* add_skipped: upper-cases the ticker, adds it to the set read from
\* skipped.json, records the reason and persists both.
AddSkipped(ticker, reason) ==
    [tickers |-> ListOf(ReadSkippedSet \cup {Upper(ticker)}),
     reasons |-> [t \in DOMAIN skippedJson.reasons \cup {Upper(ticker)} |->
                     IF t = Upper(ticker) THEN reason ELSE skippedJson.reasons[t]]]

-----------------------------------------------------------------------------
(* Thread pool *)

WorkerIds == 1..Len(workers)
Active(w) == workers[w].pc # "finished"
Running(w) == workers[w].pc \notin {"queued", "finished"}
NumRunning == Cardinality({w \in WorkerIds : Running(w)})
NumOfKind(k) == Cardinality({w \in WorkerIds : workers[w].kind = k})

\* executor.submit: a queued job starts when one of the pool's threads is free.
CanRun(w) ==
    \/ Running(w)
    \/ workers[w].pc = "queued" /\ NumRunning < MAX_WORKERS

Finished(kind) == [kind |-> kind, pc |-> "finished"]

SetWorker(w, rec) == workers' = [workers EXCEPT ![w] = rec]

Artifacts == <<universeJson, rocketScores, finalBuys, debateFiles, summaryJson, portfolio>>

\* The event loop runs one request handler at a time.
EventLoopFree == skipReq = None

-----------------------------------------------------------------------------
(* POST /run *)

\* The ticker lists a client may import, and the lists get_universe may return
\* (de-duplicated by get_sp500_tickers).
ImportLists == SeqsUpTo({"a", "B"}, MaxTickers)
UniverseLists ==
    {l \in [1..Min(MaxTickers, Cardinality(Tickers)) -> Tickers] :
        \A i, j \in DOMAIN l : i # j => l[i] # l[j]}

ScoreWorker(mode, tickers) ==
    [kind |-> "score", pc |-> "queued", mode |-> mode, tickers |-> tickers,
     ticker_list |-> <<>>, i |-> 1, completed |-> 0, rocket_scores |-> <<>>,
     current_total |-> 0]

\* create_run: validates, writes the "starting" status and submits the scoring job.
\* One run is modelled: its id is generated here, so the request is made once.
CreateRun ==
    /\ status.stage = "none"
    /\ EventLoopFree
    /\ \E mode \in {"sp500", "import"} :
       \E tickers \in (IF mode = "import" THEN ImportLists ELSE {<<>>}) :
          IF mode = "import" /\ Len(tickers) = 0
          THEN /\ resp' = [req |-> "run", code |-> 400]
               /\ UNCHANGED <<status, workers>>
          ELSE /\ status' = StatusRecord("starting", 0,
                               IF mode = "import" THEN Len(tickers) ELSE SP500_ESTIMATE,
                               "", <<>>, None)
               /\ workers' = Append(workers, ScoreWorker(mode, tickers))
               /\ resp' = [req |-> "run", code |-> 200]
    /\ UNCHANGED <<skippedJson, Artifacts, skipReq, useRealDebate, calls, store>>

-----------------------------------------------------------------------------
(* run_rocketscore_pipeline *)

WorkerFrame == <<skippedJson, skipReq, resp, useRealDebate, calls, store>>

\* Entry: the imports, then the first "rocket" status; import mode normalises
\* its ticker list at once. A failing import goes to the outer handler.
ScoreStart(w) ==
    /\ workers[w].kind = "score" /\ workers[w].pc = "queued" /\ CanRun(w)
    /\ LET me == workers[w] IN
       \/ /\ SetWorker(w, [me EXCEPT !.pc = "handler"])
          /\ UNCHANGED status
       \/ /\ status' = StatusRecord("rocket", 0,
                            IF me.mode = "sp500" THEN SP500_ESTIMATE ELSE Len(me.tickers),
                            "", <<>>, None)
          /\ SetWorker(w,
                IF me.mode = "sp500"
                THEN [me EXCEPT !.pc = "universe_status"]
                ELSE [me EXCEPT !.pc = "write_universe",
                                !.ticker_list = [k \in 1..Len(me.tickers) |-> Upper(me.tickers[k])]])
    /\ UNCHANGED <<Artifacts, WorkerFrame>>

\* sp500: the second status write, before the universe is fetched.
ScoreUniverseStatus(w) ==
    /\ workers[w].kind = "score" /\ workers[w].pc = "universe_status"
    /\ status' = StatusRecord("rocket", 0, SP500_ESTIMATE, "", <<>>, None)
    /\ SetWorker(w, [workers[w] EXCEPT !.pc = "get_universe"])
    /\ UNCHANGED <<Artifacts, WorkerFrame>>

\* The status written when get_universe raises.
UniverseErrorStatus == StatusRecord("error", 0, 0, "", <<"S&P 500 fetch failed">>, None)

\* sp500: get_universe returns a list, or raises and the run ends in "error".
ScoreGetUniverse(w) ==
    /\ workers[w].kind = "score" /\ workers[w].pc = "get_universe"
    /\ \/ /\ status' = UniverseErrorStatus
          /\ SetWorker(w, Finished("score"))
       \/ /\ \E l \in UniverseLists :
                SetWorker(w, [workers[w] EXCEPT !.pc = "write_universe", !.ticker_list = l])
          /\ UNCHANGED status
    /\ UNCHANGED <<Artifacts, WorkerFrame>>

ScoreWriteUniverse(w) ==
    /\ workers[w].kind = "score" /\ workers[w].pc = "write_universe"
    /\ universeJson' = Some(workers[w].ticker_list)
    /\ SetWorker(w, [workers[w] EXCEPT !.pc = "status_count"])
    /\ UNCHANGED <<status, rocketScores, finalBuys, debateFiles, summaryJson, portfolio, WorkerFrame>>

\* The two status writes with the actual count, before the loop.
ScoreStatusCount(w) ==
    /\ workers[w].kind = "score" /\ workers[w].pc \in {"status_count", "status_fetching"}
    /\ status' = StatusRecord("rocket", 0, Len(workers[w].ticker_list), "", <<>>, None)
    /\ SetWorker(w, [workers[w] EXCEPT
                        !.pc = IF @ = "status_count" THEN "status_fetching" ELSE "loop"])
    /\ UNCHANGED <<Artifacts, WorkerFrame>>

\* Top of the loop body: the status before each ticker.
ScoreTickerStatus(w) ==
    /\ workers[w].kind = "score" /\ workers[w].pc = "loop"
    /\ workers[w].i <= Len(workers[w].ticker_list)
    /\ LET me == workers[w] IN
       /\ status' = StatusRecord("rocket", me.completed, Len(me.ticker_list),
                                 me.ticker_list[me.i], <<>>, None)
       /\ SetWorker(w, [me EXCEPT !.pc = "analyze"])
    /\ UNCHANGED <<Artifacts, WorkerFrame>>

\* ScoreAnalyze with a per-ticker exception that leaves the loop for the outer
\* handler instead of being counted.
ScoreAnalyzeAborting(w) ==
    /\ workers[w].kind = "score" /\ workers[w].pc = "analyze"
    /\ LET me == workers[w]
           ticker == me.ticker_list[me.i]
           next == [me EXCEPT !.pc = "loop", !.i = @ + 1, !.completed = @ + 1]
       IN
       \/ /\ SetWorker(w, next)
          /\ UNCHANGED status
       \/ /\ SetWorker(w, [me EXCEPT !.pc = "handler"])
          /\ UNCHANGED status
       \/ \E sc \in ScoreChoices :
          /\ SetWorker(w, [next EXCEPT !.rocket_scores =
                              Append(@, [ticker |-> ticker, rocket_score |-> sc])])
          /\ status' = StatusRecord("rocket", me.completed + 1, Len(me.ticker_list),
                                    ticker, <<>>, None)
    /\ UNCHANGED <<Artifacts, WorkerFrame>>

\* One ticker: insufficient data (counted, no status), an exception (counted,
\* status "Error analyzing ... continuing"), or a score (appended, counted, status).
ScoreAnalyze(w) ==
    /\ workers[w].kind = "score" /\ workers[w].pc = "analyze"
    /\ LET me == workers[w]
           ticker == me.ticker_list[me.i]
           next == [me EXCEPT !.pc = "loop", !.i = @ + 1, !.completed = @ + 1]
       IN
       \/ /\ SetWorker(w, next)
          /\ UNCHANGED status
       \/ /\ SetWorker(w, next)
          /\ status' = StatusRecord("rocket", me.completed + 1, Len(me.ticker_list),
                                    ticker, <<>>, None)
       \/ \E sc \in ScoreChoices :
          /\ SetWorker(w, [next EXCEPT !.rocket_scores =
                              Append(@, [ticker |-> ticker, rocket_score |-> sc])])
          /\ status' = StatusRecord("rocket", me.completed + 1, Len(me.ticker_list),
                                    ticker, <<>>, None)
    /\ UNCHANGED <<Artifacts, WorkerFrame>>

\* After the loop: sort by score descending and write rocket_scores.json.
ScoreWriteScores(w) ==
    /\ workers[w].kind = "score" /\ workers[w].pc = "loop"
    /\ workers[w].i > Len(workers[w].ticker_list)
    /\ LET sorted == SortStable(workers[w].rocket_scores, "score") IN
       /\ rocketScores' = Some(sorted)
       /\ SetWorker(w, [workers[w] EXCEPT !.pc = "final", !.rocket_scores = sorted])
    /\ UNCHANGED <<status, universeJson, finalBuys, debateFiles, summaryJson, portfolio, WorkerFrame>>

\* The status that ends the scoring stage.
ScoreReadyStatus(me) ==
    StatusRecord("debate_ready", Len(me.rocket_scores), Len(me.ticker_list), "", <<>>, None)

ScoreFinalStatus(w) ==
    /\ workers[w].kind = "score" /\ workers[w].pc = "final"
    /\ status' = ScoreReadyStatus(workers[w])
    /\ SetWorker(w, Finished("score"))
    /\ UNCHANGED <<Artifacts, WorkerFrame>>

\* Outer handler: reads the total of the current status.json ...
ScoreHandlerRead(w) ==
    /\ workers[w].kind = "score" /\ workers[w].pc = "handler"
    /\ SetWorker(w, [workers[w] EXCEPT !.pc = "handler_write",
                                        !.current_total = status.total])
    /\ UNCHANGED <<status, Artifacts, WorkerFrame>>

\* ... and writes the "error" status that carries it.
ScoreHandlerWrite(w) ==
    /\ workers[w].kind = "score" /\ workers[w].pc = "handler_write"
    /\ status' = StatusRecord("error", 0, workers[w].current_total, "",
                              <<"pipeline error">>, None)
    /\ SetWorker(w, Finished("score"))
    /\ UNCHANGED <<Artifacts, WorkerFrame>>

ScoreStep(w) ==
    \/ ScoreStart(w)
    \/ ScoreUniverseStatus(w)
    \/ ScoreGetUniverse(w)
    \/ ScoreWriteUniverse(w)
    \/ ScoreStatusCount(w)
    \/ ScoreTickerStatus(w)
    \/ ScoreAnalyze(w)
    \/ ScoreWriteScores(w)
    \/ ScoreFinalStatus(w)
    \/ ScoreHandlerRead(w)
    \/ ScoreHandlerWrite(w)

-----------------------------------------------------------------------------
(* select_debate_candidates *)

Cand(s, rank, group) ==
    [ticker |-> s.ticker, rocket_score |-> s.rocket_score, rank |-> rank,
     selection_group |-> group]

TickersOf(list) == {list[k].ticker : k \in DOMAIN list}

\* {s['ticker']: i + 1 for i, s in enumerate(sorted_scores)}: the last entry wins.
RankMap(sorted_scores) ==
    [t \in TickersOf(sorted_scores) |->
        CHOOSE k \in DOMAIN sorted_scores :
            /\ sorted_scores[k].ticker = t
            /\ \A j \in DOMAIN sorted_scores : sorted_scores[j].ticker = t => j <= k]

\* {s['ticker']: s for s in scores}: the last entry wins.
TickerScores(scores) ==
    [t \in TickersOf(scores) |-> scores[RankMap(scores)[t]]]

\* Group C loop: the first BEST_OF_WORST_N entries of the re-sorted bottom
\* quartile that are not selected yet.
RECURSIVE PickBestOfWorst(_, _, _, _)
PickBestOfWorst(bottom_sorted, existing, added, rank_map) ==
    IF bottom_sorted = <<>> THEN <<>>
    ELSE LET s == Head(bottom_sorted) IN
         IF s.ticker \notin existing /\ added < BEST_OF_WORST_N
         THEN <<Cand(s, rank_map[s.ticker], "best_of_worst")>>
              \o PickBestOfWorst(Tail(bottom_sorted), existing \cup {s.ticker},
                                 added + 1, rank_map)
         ELSE PickBestOfWorst(Tail(bottom_sorted), existing, added, rank_map)

\* Group D loop: the extras that are scored and not selected yet.
RECURSIVE PickExtras(_, _, _, _)
PickExtras(extras, existing, ticker_scores_map, rank_map) ==
    IF extras = <<>> THEN <<>>
    ELSE LET t == Head(extras) IN
         IF t \notin existing /\ t \in DOMAIN ticker_scores_map
         THEN <<Cand(ticker_scores_map[t],
                     IF t \in DOMAIN rank_map THEN rank_map[t] ELSE 0, "extra")>>
              \o PickExtras(Tail(extras), existing \cup {t}, ticker_scores_map, rank_map)
         ELSE PickExtras(Tail(extras), existing, ticker_scores_map, rank_map)

\* select_debate_candidates as it was before its "key fix": group C takes the
\* entries at the very end of the list, the absolute worst.
SelectDebateCandidatesWorst(sorted_scores, rank_map, extras) ==
    LET total == Len(sorted_scores)
        top == [k \in 1..Min(TOP_N, total) |->
                   Cand(sorted_scores[k], rank_map[sorted_scores[k].ticker], "top23")]
        edge == [k \in 1..Max(0, Min(EDGE_END, total) - TOP_N) |->
                   Cand(sorted_scores[TOP_N + k],
                        rank_map[sorted_scores[TOP_N + k].ticker], "edge")]
        afterB == TickersOf(top) \cup TickersOf(edge)
        worst == SubSeq(sorted_scores, Max(1, total - BEST_OF_WORST_N + 1), total)
        bow == IF total > EDGE_END
               THEN PickBestOfWorst(worst, afterB, 0, rank_map)
               ELSE <<>>
        afterC == afterB \cup TickersOf(bow)
        extra == PickExtras(extras, afterC, TickerScores(sorted_scores), rank_map)
    IN top \o edge \o bow \o extra

\* select_debate_candidates with the edge group appended before the head group.
SelectDebateCandidatesEdgeFirst(sorted_scores, rank_map, extras) ==
    LET total == Len(sorted_scores)
        top == [k \in 1..Min(TOP_N, total) |->
                   Cand(sorted_scores[k], rank_map[sorted_scores[k].ticker], "top23")]
        edge == [k \in 1..Max(0, Min(EDGE_END, total) - TOP_N) |->
                   Cand(sorted_scores[TOP_N + k],
                        rank_map[sorted_scores[TOP_N + k].ticker], "edge")]
        afterB == TickersOf(top) \cup TickersOf(edge)
        bottom_quartile == SubSeq(sorted_scores, ((total * 3) \div 4) + 1, total)
        bow == IF total > EDGE_END
               THEN PickBestOfWorst(SortStable(bottom_quartile, "score"), afterB, 0, rank_map)
               ELSE <<>>
        afterC == afterB \cup TickersOf(bow)
        extra == PickExtras(extras, afterC, TickerScores(sorted_scores), rank_map)
    IN edge \o top \o bow \o extra

SelectDebateCandidates(sorted_scores, rank_map, extras) ==
    LET total == Len(sorted_scores)
        top == [k \in 1..Min(TOP_N, total) |->
                   Cand(sorted_scores[k], rank_map[sorted_scores[k].ticker], "top23")]
        edge == [k \in 1..Max(0, Min(EDGE_END, total) - TOP_N) |->
                   Cand(sorted_scores[TOP_N + k],
                        rank_map[sorted_scores[TOP_N + k].ticker], "edge")]
        afterB == TickersOf(top) \cup TickersOf(edge)
        bottom_quartile == SubSeq(sorted_scores, ((total * 3) \div 4) + 1, total)
        bow == IF total > EDGE_END
               THEN PickBestOfWorst(SortStable(bottom_quartile, "score"), afterB, 0, rank_map)
               ELSE <<>>
        afterC == afterB \cup TickersOf(bow)
        extra == PickExtras(extras, afterC, TickerScores(sorted_scores), rank_map)
    IN top \o edge \o bow \o extra

-----------------------------------------------------------------------------
(* run_debate_pipeline: the loop over the candidates *)

Put(f, k, v) == [x \in DOMAIN f \cup {k} |-> IF x = k THEN v ELSE f[x]]

EmptyFn == [x \in {} |-> 0]

EmptySummary ==
    [buy |-> <<>>, hold |-> <<>>, sell |-> <<>>, skipped |-> <<>>, byTicker |-> EmptyFn]

\* An entry of summary["byTicker"]; the flags are the keys "skipped", "error" and
\* "promoted_from_hold", absent (FALSE) unless set.
Entry(verdict, confidence, score, skipped, error) ==
    [verdict |-> verdict, confidence |-> confidence, rocket_score |-> score,
     skipped |-> skipped, error |-> error, promoted |-> FALSE]

NoJudge == [verdict |-> "", confidence |-> 0]

\* The four roles, in the order asyncio.gather starts their tasks.
RoleOrder == <<"bull", "bear", "regime", "value">>
Roles == SeqToSet(RoleOrder)

\* A call_agent invocation: "init" (not entered), "started" (heartbeat task
\* created), "outstanding" (request posted), and the ways it ends: "ok" (parsed
\* result), "stub" (error marker), "skipstub" ("Skipped by user" marker),
\* "cancelled" (CancelledError "... skipped by user" raised to the caller).
\* Its heartbeat task: "none", "running", "ended" (it raised inside itself).
NoRoles == [r \in Roles |-> "init"]
NoHeartbeats == [r \in Roles |-> "none"]

DebateWorker(extras) ==
    [kind |-> "debate", pc |-> "queued", extras |-> extras, scores |-> <<>>,
     candidates |-> <<>>, i |-> 1, summary |-> EmptySummary, err |-> "",
     judge |-> NoJudge, roles |-> NoRoles, hb |-> NoHeartbeats,
     jst |-> "init", jhb |-> "none"]

CurTicker(me) == me.candidates[me.i].ticker
CurScore(me) == TickerScores(me.scores)[CurTicker(me)]

\* The three places that record a user skip: the summary gets the skipped marker
\* (HOLD, confidence 0, skipped=True) and the ticker joins "skipped" and "hold".
SkippedSummary(summary, ticker, score) ==
    [summary EXCEPT
        !.skipped = Append(@, ticker),
        !.byTicker = Put(@, ticker, Entry("HOLD", 0, score.rocket_score, TRUE, FALSE)),
        !.hold = Append(@, ticker)]

\* The status written with a skipped marker.
SkippedStatus(me, skipped_set) ==
    StatusRecord("debate", me.i, Len(me.candidates), "", <<>>, Some(skipped_set))

NextCandidate(me) ==
    [me EXCEPT !.pc = "loop", !.i = @ + 1, !.err = "", !.judge = NoJudge,
               !.roles = NoRoles, !.hb = NoHeartbeats, !.jst = "init", !.jhb = "none"]

\* Verdict normalisation of the judge's vocabulary.
NormalizeVerdict(raw) ==
    IF raw \in {"ENTER", "BUY"} THEN "BUY"
    ELSE IF raw \in {"EXIT", "SELL", "WAIT"} THEN "SELL"
    ELSE "HOLD"

\* The mock debate used without an API key.
MockJudge(score) ==
    [verdict |-> IF score.rocket_score >= MOCK_BUY_SCORE THEN "BUY"
                 ELSE IF score.rocket_score >= MOCK_HOLD_SCORE THEN "HOLD" ELSE "SELL",
     confidence |-> Min(MOCK_CONF_MAX, Max(MOCK_CONF_MIN, score.rocket_score))]

DebateErrorStatus(msg) == StatusRecord("error", 0, 0, "", <<msg>>, None)

\* Entry: load rocket_scores.json, rank, select, write debate_selection.json.
\* A missing rocket_scores.json raises into the outer handler.
DebateStart(w) ==
    /\ workers[w].kind = "debate" /\ workers[w].pc = "queued" /\ CanRun(w)
    /\ IF ~IsSome(rocketScores)
       THEN /\ status' = DebateErrorStatus("rocket_scores.json not found")
            /\ SetWorker(w, Finished("debate"))
            /\ UNCHANGED debateFiles
       ELSE LET scores == Val(rocketScores)
                sorted_scores == SortStable(scores, "score")
                candidates == SelectDebateCandidates(sorted_scores, RankMap(sorted_scores),
                                                     workers[w].extras)
            IN /\ debateFiles' = debateFiles \cup {<<"", "selection">>}
               /\ SetWorker(w, [workers[w] EXCEPT !.pc = "loop", !.scores = scores,
                                                   !.candidates = candidates, !.extras = <<>>])
               /\ UNCHANGED status
    /\ UNCHANGED <<universeJson, rocketScores, finalBuys, summaryJson, portfolio, WorkerFrame>>

\* DebatePrecheck without the look at the skipped set.
DebatePrecheckNoSkip(w) ==
    /\ workers[w].kind = "debate" /\ workers[w].pc = "loop"
    /\ workers[w].i <= Len(workers[w].candidates)
    /\ SetWorker(w, [workers[w] EXCEPT !.pc = "announce"])
    /\ UNCHANGED <<status, debateFiles>>
    /\ UNCHANGED <<universeJson, rocketScores, finalBuys, summaryJson, portfolio, WorkerFrame>>

\* Pre-check at the top of a candidate's slot.
DebatePrecheck(w) ==
    /\ workers[w].kind = "debate" /\ workers[w].pc = "loop"
    /\ workers[w].i <= Len(workers[w].candidates)
    /\ LET me == workers[w]
           ticker == CurTicker(me)
           skipped_set == ReadSkippedSet
       IN IF ticker \in skipped_set
          THEN /\ debateFiles' = debateFiles \cup {<<ticker, "skipped">>}
               /\ status' = SkippedStatus(me, skipped_set)
               /\ SetWorker(w, NextCandidate(
                       [me EXCEPT !.summary = SkippedSummary(@, ticker, CurScore(me))]))
          ELSE /\ SetWorker(w, [me EXCEPT !.pc = "announce"])
               /\ UNCHANGED <<status, debateFiles>>
    /\ UNCHANGED <<universeJson, rocketScores, finalBuys, summaryJson, portfolio, WorkerFrame>>

\* "Analyzing <ticker>": the status before the debate; without an API key the
\* mock debate is computed in place.
DebateAnnounce(w) ==
    /\ workers[w].kind = "debate" /\ workers[w].pc = "announce"
    /\ LET me == workers[w] IN
       /\ status' = StatusRecord("debate", me.i - 1, Len(me.candidates), CurTicker(me),
                                 <<>>, Some(ReadSkippedSet))
       /\ SetWorker(w, IF useRealDebate
                       THEN [me EXCEPT !.pc = "recheck"]
                       ELSE [me EXCEPT !.pc = "finalize", !.judge = MockJudge(CurScore(me))])
    /\ UNCHANGED <<Artifacts, WorkerFrame>>

\* DebateFinalize without the late look at the skipped set: the verdict is recorded.
DebateFinalizeNoLateCheck(w) ==
    /\ workers[w].kind = "debate" /\ workers[w].pc = "finalize"
    /\ LET me == workers[w]
           ticker == CurTicker(me)
           verdict == NormalizeVerdict(me.judge.verdict)
       IN /\ debateFiles' = debateFiles \cup {<<ticker, "debate">>}
          /\ SetWorker(w, [me EXCEPT
                !.pc = "report",
                !.summary.byTicker =
                    Put(@, ticker, Entry(verdict, me.judge.confidence,
                                         CurScore(me).rocket_score, FALSE, FALSE)),
                !.summary.buy = IF verdict = "BUY" THEN Append(@, ticker) ELSE @,
                !.summary.hold = IF verdict = "HOLD" THEN Append(@, ticker) ELSE @,
                !.summary.sell = IF verdict = "SELL" THEN Append(@, ticker) ELSE @])
          /\ UNCHANGED status
    /\ UNCHANGED <<universeJson, rocketScores, finalBuys, summaryJson, portfolio, WorkerFrame>>

\* After the debate returned: a ticker skipped meanwhile gets the skipped marker
\* (the late result is ignored); otherwise the verdict is recorded.
DebateFinalize(w) ==
    /\ workers[w].kind = "debate" /\ workers[w].pc = "finalize"
    /\ LET me == workers[w]
           ticker == CurTicker(me)
           skipped_now == ReadSkippedSet
           verdict == NormalizeVerdict(me.judge.verdict)
       IN IF ticker \in skipped_now
          THEN /\ debateFiles' = debateFiles \cup {<<ticker, "skipped">>}
               /\ status' = SkippedStatus(me, skipped_now)
               /\ SetWorker(w, NextCandidate(
                       [me EXCEPT !.summary = SkippedSummary(@, ticker, CurScore(me))]))
          ELSE /\ debateFiles' = debateFiles \cup {<<ticker, "debate">>}
               /\ SetWorker(w, [me EXCEPT
                     !.pc = "report",
                     !.summary.byTicker =
                         Put(@, ticker, Entry(verdict, me.judge.confidence,
                                              CurScore(me).rocket_score, FALSE, FALSE)),
                     !.summary.buy = IF verdict = "BUY" THEN Append(@, ticker) ELSE @,
                     !.summary.hold = IF verdict = "HOLD" THEN Append(@, ticker) ELSE @,
                     !.summary.sell = IF verdict = "SELL" THEN Append(@, ticker) ELSE @])
               /\ UNCHANGED status
    /\ UNCHANGED <<universeJson, rocketScores, finalBuys, summaryJson, portfolio, WorkerFrame>>

\* "Completed <ticker>": the progress after a recorded verdict.
DebateReport(w) ==
    /\ workers[w].kind = "debate" /\ workers[w].pc = "report"
    /\ LET me == workers[w] IN
       /\ status' = StatusRecord("debate", me.i, Len(me.candidates), "", <<>>,
                                 Some(ReadSkippedSet))
       /\ SetWorker(w, NextCandidate(me))
    /\ UNCHANGED <<Artifacts, WorkerFrame>>

\* After the loop: debate_summary.json, as the summary stands before promotion.
DebateWriteSummary(w) ==
    /\ workers[w].kind = "debate" /\ workers[w].pc = "loop"
    /\ workers[w].i > Len(workers[w].candidates)
    /\ summaryJson' = Some(workers[w].summary)
    /\ SetWorker(w, [workers[w] EXCEPT !.pc = "promote"])
    /\ UNCHANGED <<status, universeJson, rocketScores, finalBuys, debateFiles, portfolio,
                   WorkerFrame>>

\* [(ticker, byTicker[ticker]) for ticker in list], as records with the ticker.
WithTicker(list, byTicker, conviction) ==
    [k \in DOMAIN list |->
        [ticker |-> list[k], verdict |-> byTicker[list[k]].verdict,
         confidence |-> byTicker[list[k]].confidence,
         rocket_score |-> byTicker[list[k]].rocket_score,
         skipped |-> byTicker[list[k]].skipped, error |-> byTicker[list[k]].error,
         promoted |-> byTicker[list[k]].promoted, conviction |-> conviction]]

Prefix(list, n) == SubSeq(list, 1, Min(n, Len(list)))

\* for ticker, data in hold_candidates[:needed]: move the ticker from hold to buy.
RECURSIVE PromoteAll(_, _)
PromoteAll(summary, picked) ==
    IF picked = <<>> THEN summary
    ELSE LET t == Head(picked).ticker IN
         PromoteAll([summary EXCEPT
                        !.buy = Append(@, t),
                        !.hold = RemoveFirst(@, t),
                        !.byTicker = Put(@, t, [Entry("BUY", Head(picked).confidence,
                                                     Head(picked).rocket_score,
                                                     Head(picked).skipped,
                                                     Head(picked).error)
                                                EXCEPT !.promoted = TRUE])],
                    Tail(picked))

\* Force buy: promote the best HOLDs while fewer than MIN_BUY are BUY.
Promote(summary) ==
    IF Len(summary.buy) < MIN_BUY
    THEN PromoteAll(summary,
                    Prefix(SortStable(WithTicker(summary.hold, summary.byTicker, "high"),
                                      "conviction"),
                           MIN_BUY - Len(summary.buy)))
    ELSE summary

\* final_buys.json items without the cap at MAX_BUY.
FinalBuysUncapped(summary) ==
    LET final_buy_candidates ==
            SortStable(WithTicker(summary.buy, summary.byTicker, "high"), "conviction")
        remaining_hold ==
            SortStable(WithTicker(summary.hold, summary.byTicker, "low"), "conviction")
    IN IF Len(final_buy_candidates) < MIN_BUY
       THEN final_buy_candidates
            \o Prefix(remaining_hold, MIN_BUY - Len(final_buy_candidates))
       ELSE final_buy_candidates

\* final_buys.json items: the MAX_BUY best BUYs, padded from the remaining HOLDs.
FinalBuys(summary) ==
    LET final_buy_candidates ==
            SortStable(WithTicker(summary.buy, summary.byTicker, "high"), "conviction")
        capped == Prefix(final_buy_candidates, MAX_BUY)
        remaining_hold ==
            SortStable(WithTicker(summary.hold, summary.byTicker, "low"), "conviction")
    IN IF Len(capped) < MIN_BUY
       THEN capped \o Prefix(remaining_hold, MIN_BUY - Len(capped))
       ELSE capped

\* Promotion, then final_buys.json.
DebatePromote(w) ==
    /\ workers[w].kind = "debate" /\ workers[w].pc = "promote"
    /\ LET promoted == Promote(workers[w].summary) IN
       /\ finalBuys' = Some(FinalBuys(promoted))
       /\ SetWorker(w, [workers[w] EXCEPT !.pc = "final", !.summary = promoted])
    /\ UNCHANGED <<status, universeJson, rocketScores, debateFiles, summaryJson, portfolio,
                   WorkerFrame>>

\* The status that ends the debate stage.
DebateFinalStatus(w) ==
    /\ workers[w].kind = "debate" /\ workers[w].pc = "final"
    /\ status' = StatusRecord("debate_ready", Len(workers[w].candidates),
                              Len(workers[w].candidates), "", <<>>, Some(ReadSkippedSet))
    /\ SetWorker(w, Finished("debate"))
    /\ UNCHANGED <<Artifacts, WorkerFrame>>

DebateLoopStep(w) ==
    \/ DebateStart(w)
    \/ DebatePrecheck(w)
    \/ DebateAnnounce(w)
    \/ DebateFinalize(w)
    \/ DebateReport(w)
    \/ DebateWriteSummary(w)
    \/ DebatePromote(w)
    \/ DebateFinalStatus(w)

-----------------------------------------------------------------------------
(* run_debate_pipeline with an API key: run_single_debate_with_news *)

Callees == Roles \cup {"news", "judge"}

Called(t, callee) == [calls EXCEPT ![t][callee] = @ + 1]

DebateFrame == <<skippedJson, skipReq, resp, useRealDebate, store>>

SKIP_MSG == "Ticker skipped by user"

\* update_substep: a "debate" status without the skipped key.
SubstepStatus(me) ==
    StatusRecord("debate", me.i - 1, Len(me.candidates), CurTicker(me), <<>>, None)

\* The check right before the debate starts: a skipped ticker raises SKIP_MSG.
DebateRecheck(w) ==
    /\ workers[w].kind = "debate" /\ workers[w].pc = "recheck"
    /\ SetWorker(w, IF CurTicker(workers[w]) \in ReadSkippedSet
                    THEN [workers[w] EXCEPT !.pc = "except", !.err = SKIP_MSG]
                    ELSE [workers[w] EXCEPT !.pc = "news_status"])
    /\ UNCHANGED <<status, Artifacts, calls, DebateFrame>>

\* Step 1: update_substep(0, "Fetching news"), and the news request is issued.
SingleNewsStatus(w) ==
    /\ workers[w].kind = "debate" /\ workers[w].pc = "news_status"
    /\ status' = SubstepStatus(workers[w])
    /\ calls' = Called(CurTicker(workers[w]), "news")
    /\ SetWorker(w, [workers[w] EXCEPT !.pc = "news"])
    /\ UNCHANGED <<Artifacts, DebateFrame>>

\* fetch_news_for_ticker returns articles or an empty context with an error
\* (it raises nothing); the context is cached under news/.
SingleFetchNews(w) ==
    /\ workers[w].kind = "debate" /\ workers[w].pc = "news"
    /\ debateFiles' = debateFiles \cup {<<CurTicker(workers[w]), "news">>}
    /\ SetWorker(w, [workers[w] EXCEPT !.pc = "after_news"])
    /\ UNCHANGED <<status, universeJson, rocketScores, finalBuys, summaryJson, portfolio,
                   calls, DebateFrame>>

\* SingleAfterNews without the look at the skipped set: the fan-out always starts.
SingleAfterNewsNoCheck(w) ==
    /\ workers[w].kind = "debate" /\ workers[w].pc = "after_news"
    /\ status' = SubstepStatus(workers[w])
    /\ SetWorker(w, [workers[w] EXCEPT !.pc = "fanout"])
    /\ UNCHANGED <<Artifacts, calls, DebateFrame>>

\* The check after the news fetch, then update_substep(1) and the fan-out.
SingleAfterNews(w) ==
    /\ workers[w].kind = "debate" /\ workers[w].pc = "after_news"
    /\ IF CurTicker(workers[w]) \in ReadSkippedSet
       THEN /\ SetWorker(w, [workers[w] EXCEPT !.pc = "except", !.err = SKIP_MSG])
            /\ UNCHANGED status
       ELSE /\ status' = SubstepStatus(workers[w])
            /\ SetWorker(w, [workers[w] EXCEPT !.pc = "fanout"])
    /\ UNCHANGED <<Artifacts, calls, DebateFrame>>

RoleIndex(r) == CHOOSE k \in DOMAIN RoleOrder : RoleOrder[k] = r

\* The event loop runs each gathered task to its first suspension, in order.
EarlierStarted(me, r) ==
    \A k \in 1..(RoleIndex(r) - 1) : me.roles[RoleOrder[k]] \notin {"init", "started"}

AllStarted(me) == \A r \in Roles : me.roles[r] \notin {"init", "started"}
AllEnded(me) == \A r \in Roles : me.roles[r] \in {"ok", "stub", "skipstub", "cancelled"}

\* call_agent entry: a skipped ticker returns the "Skipped by user" marker;
\* otherwise the heartbeat task is created.
RoleStart(w, r) ==
    /\ workers[w].kind = "debate" /\ workers[w].pc = "fanout"
    /\ workers[w].roles[r] = "init" /\ EarlierStarted(workers[w], r)
    /\ SetWorker(w, IF CurTicker(workers[w]) \in ReadSkippedSet
                    THEN [workers[w] EXCEPT !.roles[r] = "skipstub"]
                    ELSE [workers[w] EXCEPT !.roles[r] = "started", !.hb[r] = "running"])
    /\ UNCHANGED <<status, Artifacts, calls, DebateFrame>>

\* call_agent right before the request: a skipped ticker raises CancelledError
\* "... skipped by user" (the heartbeat is cancelled); otherwise the request is posted.
RolePost(w, r) ==
    /\ workers[w].kind = "debate" /\ workers[w].pc = "fanout"
    /\ workers[w].roles[r] = "started"
    /\ IF CurTicker(workers[w]) \in ReadSkippedSet
       THEN /\ SetWorker(w, [workers[w] EXCEPT !.roles[r] = "cancelled", !.hb[r] = "none"])
            /\ UNCHANGED calls
       ELSE /\ SetWorker(w, [workers[w] EXCEPT !.roles[r] = "outstanding"])
            /\ calls' = Called(CurTicker(workers[w]), r)
    /\ UNCHANGED <<status, Artifacts, DebateFrame>>

\* The heartbeat's poll while the request is outstanding: when the ticker is in
\* the skipped set it sets heartbeat_stop and raises CancelledError inside its own
\* task, which nothing awaits until the request ends; the request is left as it is.
\* (A poll that does not find the ticker only logs.)
HeartbeatPoll(w, r) ==
    /\ workers[w].kind = "debate" /\ workers[w].pc = "fanout"
    /\ workers[w].roles[r] = "outstanding" /\ workers[w].hb[r] = "running"
    /\ CurTicker(workers[w]) \in ReadSkippedSet
    /\ SetWorker(w, [workers[w] EXCEPT !.hb[r] = "ended"])
    /\ UNCHANGED <<status, Artifacts, calls, DebateFrame>>

\* RoleResponse with one retry loop: a failed request is posted again.
RoleResponseRetrying(w, r) ==
    /\ workers[w].kind = "debate" /\ workers[w].pc = "fanout"
    /\ AllStarted(workers[w])
    /\ workers[w].roles[r] = "outstanding"
    /\ \/ SetWorker(w, [workers[w] EXCEPT
            !.roles[r] = IF CurTicker(workers[w]) \in ReadSkippedSet THEN "skipstub" ELSE "ok",
            !.hb[r] = "none"])
       \/ SetWorker(w, [workers[w] EXCEPT !.roles[r] = "started"])
    /\ UNCHANGED <<status, Artifacts, calls, DebateFrame>>

\* The request ends: a response (ignored for a ticker skipped meanwhile, else
\* parsed), or an HTTP error / read timeout (the generic handler returns the
\* error stub and leaves the heartbeat task alone).
RoleResponse(w, r) ==
    /\ workers[w].kind = "debate" /\ workers[w].pc = "fanout"
    /\ AllStarted(workers[w])
    /\ workers[w].roles[r] = "outstanding"
    /\ \/ SetWorker(w, [workers[w] EXCEPT
            !.roles[r] = IF CurTicker(workers[w]) \in ReadSkippedSet THEN "skipstub" ELSE "ok",
            !.hb[r] = "none"])
       \/ SetWorker(w, [workers[w] EXCEPT !.roles[r] = "stub"])
    /\ UNCHANGED <<status, Artifacts, calls, DebateFrame>>

\* SingleFanIn that treats a failed role as a failure of the debate: a stub among
\* the results raises instead of going on to the judge.
SingleFanInStrict(w) ==
    /\ workers[w].kind = "debate" /\ workers[w].pc = "fanout"
    /\ AllEnded(workers[w])
    /\ SetWorker(w,
          IF \/ \E r \in Roles : workers[w].roles[r] = "cancelled"
             \/ CurTicker(workers[w]) \in ReadSkippedSet
          THEN [workers[w] EXCEPT !.pc = "except", !.err = SKIP_MSG]
          ELSE IF \E r \in Roles : workers[w].roles[r] = "stub"
          THEN [workers[w] EXCEPT !.pc = "except", !.err = "role failed"]
          ELSE [workers[w] EXCEPT !.pc = "judge_status"])
    /\ UNCHANGED <<status, Artifacts, calls, DebateFrame>>

\* SingleFanIn that goes on as soon as one role has ended (a wait for the first
\* completed task instead of gather).
SingleFanInFirst(w) ==
    /\ workers[w].kind = "debate" /\ workers[w].pc = "fanout"
    /\ AllStarted(workers[w])
    /\ \E r \in Roles : workers[w].roles[r] \in {"ok", "stub", "skipstub", "cancelled"}
    /\ SetWorker(w,
          IF \/ \E r \in Roles : workers[w].roles[r] = "cancelled"
             \/ CurTicker(workers[w]) \in ReadSkippedSet
          THEN [workers[w] EXCEPT !.pc = "except", !.err = SKIP_MSG]
          ELSE [workers[w] EXCEPT !.pc = "judge_status"])
    /\ UNCHANGED <<status, Artifacts, calls, DebateFrame>>

\* SingleFanIn that waits until every role has answered: with a failed role
\* among the results it never goes on.
SingleFanInAwaitingAnswers(w) ==
    /\ workers[w].kind = "debate" /\ workers[w].pc = "fanout"
    /\ \A r \in Roles : workers[w].roles[r] \in {"ok", "skipstub", "cancelled"}
    /\ SetWorker(w,
          IF \/ \E r \in Roles : workers[w].roles[r] = "cancelled"
             \/ CurTicker(workers[w]) \in ReadSkippedSet
          THEN [workers[w] EXCEPT !.pc = "except", !.err = SKIP_MSG]
          ELSE [workers[w] EXCEPT !.pc = "judge_status"])
    /\ UNCHANGED <<status, Artifacts, calls, DebateFrame>>

\* After gather: a skip cancellation among the results, or the ticker in the
\* skipped set, raises SKIP_MSG; otherwise the judge is next.
SingleFanIn(w) ==
    /\ workers[w].kind = "debate" /\ workers[w].pc = "fanout"
    /\ AllEnded(workers[w])
    /\ SetWorker(w,
          IF \/ \E r \in Roles : workers[w].roles[r] = "cancelled"
             \/ CurTicker(workers[w]) \in ReadSkippedSet
          THEN [workers[w] EXCEPT !.pc = "except", !.err = SKIP_MSG]
          ELSE [workers[w] EXCEPT !.pc = "judge_status"])
    /\ UNCHANGED <<status, Artifacts, calls, DebateFrame>>

\* update_substep(5, "Running Judge").
SingleJudgeStatus(w) ==
    /\ workers[w].kind = "debate" /\ workers[w].pc = "judge_status"
    /\ status' = SubstepStatus(workers[w])
    /\ SetWorker(w, [workers[w] EXCEPT !.pc = "judge_gate"])
    /\ UNCHANGED <<Artifacts, calls, DebateFrame>>

\* The check before the judge.
SingleJudgeGate(w) ==
    /\ workers[w].kind = "debate" /\ workers[w].pc = "judge_gate"
    /\ SetWorker(w, IF CurTicker(workers[w]) \in ReadSkippedSet
                    THEN [workers[w] EXCEPT !.pc = "except", !.err = SKIP_MSG]
                    ELSE [workers[w] EXCEPT !.pc = "judge_call"])
    /\ UNCHANGED <<status, Artifacts, calls, DebateFrame>>

JUDGE_DEFAULT_CONFIDENCE == 50
JUDGE_TIMEOUT_CONFIDENCE == 30

\* What run_single_debate_with_news makes of the dict call_agent returned for the
\* judge: a missing (or falsy) verdict is HOLD, a missing (or falsy) confidence 50.
JudgeOf(verdict, confidence) ==
    [verdict |-> IF verdict = "" THEN "HOLD" ELSE verdict,
     confidence |-> IF confidence = 0 THEN JUDGE_DEFAULT_CONFIDENCE ELSE confidence]

\* The stubs of call_agent carry neither a verdict nor a confidence.
JudgeStub == JudgeOf("", 0)

\* The fallback of the asyncio.TimeoutError handler around the judge.
JudgeTimeoutFallback == [verdict |-> "HOLD", confidence |-> JUDGE_TIMEOUT_CONFIDENCE]

\* call_agent("judge") entry.
JudgeStart(w) ==
    /\ workers[w].kind = "debate" /\ workers[w].pc = "judge_call"
    /\ workers[w].jst = "init"
    /\ SetWorker(w, IF CurTicker(workers[w]) \in ReadSkippedSet
                    THEN [workers[w] EXCEPT !.jst = "skipstub", !.judge = JudgeStub,
                                            !.pc = "single_done"]
                    ELSE [workers[w] EXCEPT !.jst = "started", !.jhb = "running"])
    /\ UNCHANGED <<status, Artifacts, calls, DebateFrame>>

\* call_agent("judge") right before the request: the skip cancellation becomes
\* SKIP_MSG in the except clause around the judge.
JudgePost(w) ==
    /\ workers[w].kind = "debate" /\ workers[w].pc = "judge_call"
    /\ workers[w].jst = "started"
    /\ IF CurTicker(workers[w]) \in ReadSkippedSet
       THEN /\ SetWorker(w, [workers[w] EXCEPT !.jst = "cancelled", !.jhb = "none",
                                               !.pc = "except", !.err = SKIP_MSG])
            /\ UNCHANGED calls
       ELSE /\ SetWorker(w, [workers[w] EXCEPT !.jst = "outstanding"])
            /\ calls' = Called(CurTicker(workers[w]), "judge")
    /\ UNCHANGED <<status, Artifacts, DebateFrame>>

\* The judge's heartbeat, as for a role.
JudgeHeartbeatPoll(w) ==
    /\ workers[w].kind = "debate" /\ workers[w].pc = "judge_call"
    /\ workers[w].jst = "outstanding" /\ workers[w].jhb = "running"
    /\ CurTicker(workers[w]) \in ReadSkippedSet
    /\ SetWorker(w, [workers[w] EXCEPT !.jhb = "ended"])
    /\ UNCHANGED <<status, Artifacts, calls, DebateFrame>>

\* Verdicts and confidences the aggregation worker may answer.
JudgeVerdicts == {"ENTER", "HOLD", "EXIT"}
JudgeConfidences == {80}

\* The judge's request ends: a response (ignored for a ticker skipped meanwhile),
\* or an error (the error stub).
JudgeResponse(w) ==
    /\ workers[w].kind = "debate" /\ workers[w].pc = "judge_call"
    /\ workers[w].jst = "outstanding"
    /\ \/ \E v \in JudgeVerdicts, c \in JudgeConfidences :
            SetWorker(w,
               IF CurTicker(workers[w]) \in ReadSkippedSet
               THEN [workers[w] EXCEPT !.jst = "skipstub", !.jhb = "none",
                                       !.judge = JudgeStub, !.pc = "single_done"]
               ELSE [workers[w] EXCEPT !.jst = "ok", !.jhb = "none",
                                       !.judge = JudgeOf(v, c), !.pc = "single_done"])
       \/ SetWorker(w, [workers[w] EXCEPT !.jst = "stub", !.judge = JudgeStub,
                                          !.pc = "single_done"])
    /\ UNCHANGED <<status, Artifacts, calls, DebateFrame>>

\* wait_for(..., JUDGE_TIMEOUT) expires while the request is outstanding. The
\* cancellation is delivered inside call_agent, whose handler returns the timeout
\* stub; depending on where it lands, wait_for hands that stub on or raises
\* TimeoutError. The TimeoutError handler raises SKIP_MSG for a skipped ticker and
\* otherwise uses the HOLD fallback.
JudgeTimeout(w) ==
    /\ workers[w].kind = "debate" /\ workers[w].pc = "judge_call"
    /\ workers[w].jst = "outstanding"
    /\ \/ SetWorker(w, [workers[w] EXCEPT !.jst = "stub", !.judge = JudgeStub,
                                          !.pc = "single_done"])
       \/ SetWorker(w,
             IF CurTicker(workers[w]) \in ReadSkippedSet
             THEN [workers[w] EXCEPT !.jst = "stub", !.pc = "except", !.err = SKIP_MSG]
             ELSE [workers[w] EXCEPT !.jst = "stub", !.judge = JudgeTimeoutFallback,
                                     !.pc = "single_done"])
    /\ UNCHANGED <<status, Artifacts, calls, DebateFrame>>

\* update_substep(6, "Complete"); the debate is returned to the loop.
SingleDone(w) ==
    /\ workers[w].kind = "debate" /\ workers[w].pc = "single_done"
    /\ status' = SubstepStatus(workers[w])
    /\ SetWorker(w, [workers[w] EXCEPT !.pc = "finalize"])
    /\ UNCHANGED <<Artifacts, calls, DebateFrame>>

\* The 20 s wait_for around the whole debate expires while it is suspended in
\* the news fetch, in gather or in the judge's request: TimeoutError reaches the
\* loop, which raises SKIP_MSG for a skipped ticker and re-raises otherwise.
DebateTimeout(w) ==
    /\ workers[w].kind = "debate"
    /\ \/ workers[w].pc = "news"
       \/ workers[w].pc = "fanout" /\ AllStarted(workers[w]) /\ ~AllEnded(workers[w])
       \/ workers[w].pc = "judge_call" /\ workers[w].jst = "outstanding"
    /\ SetWorker(w, [workers[w] EXCEPT
          !.pc = "except",
          !.err = IF CurTicker(workers[w]) \in ReadSkippedSet THEN SKIP_MSG ELSE "timeout"])
    /\ UNCHANGED <<status, Artifacts, calls, DebateFrame>>

\* The entry of summary["byTicker"] for a failed candidate.
ErrorEntry(score) == Entry("HOLD", 0, score.rocket_score, FALSE, TRUE)

\* DebateExcept whose real-error branch goes on to the next candidate without
\* recording an entry for the failed one.
DebateExceptDropping(w) ==
    /\ workers[w].kind = "debate" /\ workers[w].pc = "except"
    /\ LET me == workers[w]
           ticker == CurTicker(me)
           skipped_now == ReadSkippedSet
       IN IF ticker \in skipped_now /\ me.err = SKIP_MSG
          THEN /\ debateFiles' = debateFiles \cup {<<ticker, "skipped">>}
               /\ status' = SkippedStatus(me, skipped_now)
               /\ SetWorker(w, NextCandidate(
                       [me EXCEPT !.summary = SkippedSummary(@, ticker, CurScore(me))]))
          ELSE /\ debateFiles' = debateFiles \cup {<<ticker, "error">>}
               /\ SetWorker(w, NextCandidate(me))
               /\ UNCHANGED status
    /\ UNCHANGED <<universeJson, rocketScores, finalBuys, summaryJson, portfolio, calls,
                   DebateFrame>>

\* except Exception in the loop: a skip (the ticker is in the skipped set and the
\* message says "skipped by user") gets the skipped marker; anything else is a
\* real error and writes <ticker>_error.json.
DebateExcept(w) ==
    /\ workers[w].kind = "debate" /\ workers[w].pc = "except"
    /\ LET me == workers[w]
           ticker == CurTicker(me)
           skipped_now == ReadSkippedSet
       IN IF ticker \in skipped_now /\ me.err = SKIP_MSG
          THEN /\ debateFiles' = debateFiles \cup {<<ticker, "skipped">>}
               /\ status' = SkippedStatus(me, skipped_now)
               /\ SetWorker(w, NextCandidate(
                       [me EXCEPT !.summary = SkippedSummary(@, ticker, CurScore(me))]))
          ELSE /\ debateFiles' = debateFiles \cup {<<ticker, "error">>}
               /\ SetWorker(w, [me EXCEPT !.pc = "error_report"])
               /\ UNCHANGED status
    /\ UNCHANGED <<universeJson, rocketScores, finalBuys, summaryJson, portfolio, calls,
                   DebateFrame>>

\* A real error that aborts the run instead of recording the HOLD entry.
DebateErrorReportAborting(w) ==
    /\ workers[w].kind = "debate" /\ workers[w].pc = "error_report"
    /\ status' = DebateErrorStatus(workers[w].err)
    /\ SetWorker(w, Finished("debate"))
    /\ UNCHANGED <<Artifacts, calls, DebateFrame>>

\* Real error: the progress, then the HOLD entry with the error.
DebateErrorReport(w) ==
    /\ workers[w].kind = "debate" /\ workers[w].pc = "error_report"
    /\ LET me == workers[w] IN
       /\ status' = StatusRecord("debate", me.i, Len(me.candidates), "", <<>>,
                                 Some(ReadSkippedSet))
       /\ SetWorker(w, NextCandidate(
               [me EXCEPT !.summary.byTicker = Put(@, CurTicker(me), ErrorEntry(CurScore(me))),
                          !.summary.hold = Append(@, CurTicker(me))]))
    /\ UNCHANGED <<Artifacts, calls, DebateFrame>>

DebateSingleStep(w) ==
    \/ DebateRecheck(w)
    \/ SingleNewsStatus(w)
    \/ SingleFetchNews(w)
    \/ SingleAfterNews(w)
    \/ \E r \in Roles : RoleStart(w, r)
    \/ \E r \in Roles : RolePost(w, r)
    \/ \E r \in Roles : HeartbeatPoll(w, r)
    \/ \E r \in Roles : RoleResponse(w, r)
    \/ SingleFanIn(w)
    \/ SingleJudgeStatus(w)
    \/ SingleJudgeGate(w)
    \/ JudgeStart(w)
    \/ JudgePost(w)
    \/ JudgeHeartbeatPoll(w)
    \/ JudgeResponse(w)
    \/ JudgeTimeout(w)
    \/ SingleDone(w)
    \/ DebateTimeout(w)
    \/ DebateExcept(w)
    \/ DebateErrorReport(w)

-----------------------------------------------------------------------------
(* run_optimize_pipeline *)

OptimizeWorker == [kind |-> "optimize", pc |-> "queued", eligible |-> <<>>]

OptimizeErrorStatus(msg) == StatusRecord("error", 0, 0, "", <<msg>>, None)

\* [item['ticker'] for item in items if item.get('ticker') in ticker_scores]
RECURSIVE Eligible(_, _)
Eligible(items, scored) ==
    IF items = <<>> THEN <<>>
    ELSE (IF Head(items).ticker \in scored THEN <<Head(items).ticker>> ELSE <<>>)
         \o Eligible(Tail(items), scored)

\* OptStart taking the eligible tickers from the BUY list of
\* debate_summary.json, not from the items of final_buys.json.
OptStartFromSummary(w) ==
    /\ workers[w].kind = "optimize" /\ workers[w].pc = "queued" /\ CanRun(w)
    /\ IF ~IsSome(rocketScores) \/ ~IsSome(summaryJson)
       THEN /\ status' = OptimizeErrorStatus("artifact not found")
            /\ SetWorker(w, Finished("optimize"))
       ELSE LET buys == Val(summaryJson).buy
                eligible == Eligible([k \in DOMAIN buys |-> [ticker |-> buys[k]]],
                                     TickersOf(Val(rocketScores)))
            IN IF eligible = <<>>
               THEN /\ status' = OptimizeErrorStatus("No eligible tickers for optimization")
                    /\ SetWorker(w, Finished("optimize"))
               ELSE /\ SetWorker(w, [workers[w] EXCEPT !.pc = "solve", !.eligible = eligible])
                    /\ UNCHANGED status
    /\ UNCHANGED <<Artifacts, WorkerFrame>>

\* Entry: load both artifacts and the eligible tickers; a missing artifact or an
\* empty eligible list raises into the handler, which writes "error".
OptStart(w) ==
    /\ workers[w].kind = "optimize" /\ workers[w].pc = "queued" /\ CanRun(w)
    /\ IF ~IsSome(rocketScores)
       THEN /\ status' = OptimizeErrorStatus("rocket_scores.json not found")
            /\ SetWorker(w, Finished("optimize"))
       ELSE IF ~IsSome(finalBuys)
       THEN /\ status' = OptimizeErrorStatus("final_buys.json not found")
            /\ SetWorker(w, Finished("optimize"))
       ELSE LET eligible == Eligible(Val(finalBuys), TickersOf(Val(rocketScores))) IN
            IF eligible = <<>>
            THEN /\ status' = OptimizeErrorStatus("No eligible tickers for optimization")
                 /\ SetWorker(w, Finished("optimize"))
            ELSE /\ SetWorker(w, [workers[w] EXCEPT !.pc = "solve", !.eligible = eligible])
                 /\ UNCHANGED status
    /\ UNCHANGED <<Artifacts, WorkerFrame>>

\* optimize_portfolio: the solver ends optimal, ends with another status (the
\* equal-weight fallback is returned), or every solver attempt raises (the third,
\* unguarded problem.solve propagates and the handler writes "error").
SolverOutcomes == {"optimal", "not_optimal", "raises"}

OptSolve(w) ==
    /\ workers[w].kind = "optimize" /\ workers[w].pc = "solve"
    /\ \E outcome \in SolverOutcomes :
          IF outcome = "raises"
          THEN /\ status' = OptimizeErrorStatus("solver error")
               /\ SetWorker(w, Finished("optimize"))
               /\ UNCHANGED portfolio
          ELSE /\ portfolio' = Some(IF outcome = "optimal" THEN "CVXPY" ELSE "fallback")
               /\ SetWorker(w, [workers[w] EXCEPT !.pc = "final"])
               /\ UNCHANGED status
    /\ UNCHANGED <<universeJson, rocketScores, finalBuys, debateFiles, summaryJson,
                   WorkerFrame>>

OptFinalStatus(w) ==
    /\ workers[w].kind = "optimize" /\ workers[w].pc = "final"
    /\ status' = StatusRecord("done", Len(workers[w].eligible), Len(workers[w].eligible),
                              "", <<>>, None)
    /\ SetWorker(w, Finished("optimize"))
    /\ UNCHANGED <<Artifacts, WorkerFrame>>

OptStep(w) ==
    \/ OptStart(w)
    \/ OptSolve(w)
    \/ OptFinalStatus(w)

-----------------------------------------------------------------------------
(* POST /run/{id}/debate, POST /run/{id}/optimize *)

ExtrasChoices == {<<>>, <<"B">>}

\* StartDebate without the check for rocket_scores.json.
StartDebateUnchecked ==
    /\ EventLoopFree
    /\ NumOfKind("debate") < MaxDebateStarts
    /\ \E extras \in ExtrasChoices :
          IF status.stage = "none"
          THEN /\ resp' = [req |-> "debate", code |-> 404]
               /\ UNCHANGED <<status, workers>>
          ELSE /\ status' = StatusRecord("debate", 0, 0, "", <<>>, None)
               /\ workers' = Append(workers, DebateWorker(extras))
               /\ resp' = [req |-> "debate", code |-> 200]
    /\ UNCHANGED <<skippedJson, Artifacts, skipReq, useRealDebate, calls, store>>

\* start_debate: 404 without status.json, 400 without rocket_scores.json;
\* otherwise writes stage "debate" and submits the debate job.
StartDebate ==
    /\ EventLoopFree
    /\ NumOfKind("debate") < MaxDebateStarts
    /\ \E extras \in ExtrasChoices :
          IF status.stage = "none"
          THEN /\ resp' = [req |-> "debate", code |-> 404]
               /\ UNCHANGED <<status, workers>>
          ELSE IF ~IsSome(rocketScores)
          THEN /\ resp' = [req |-> "debate", code |-> 400]
               /\ UNCHANGED <<status, workers>>
          ELSE /\ status' = StatusRecord("debate", 0, 0, "", <<>>, None)
               /\ workers' = Append(workers, DebateWorker(extras))
               /\ resp' = [req |-> "debate", code |-> 200]
    /\ UNCHANGED <<skippedJson, Artifacts, skipReq, useRealDebate, calls, store>>

\* start_optimize: 404 without status.json, 400 without final_buys.json;
\* otherwise writes stage "optimize" and submits the optimize job.
StartOptimize ==
    /\ EventLoopFree
    /\ NumOfKind("optimize") < MaxOptimizeStarts
    /\ IF status.stage = "none"
       THEN /\ resp' = [req |-> "optimize", code |-> 404]
            /\ UNCHANGED <<status, workers>>
       ELSE IF ~IsSome(finalBuys)
       THEN /\ resp' = [req |-> "optimize", code |-> 400]
            /\ UNCHANGED <<status, workers>>
       ELSE /\ status' = StatusRecord("optimize", 0, 0, "", <<>>, None)
            /\ workers' = Append(workers, OptimizeWorker)
            /\ resp' = [req |-> "optimize", code |-> 200]
    /\ UNCHANGED <<skippedJson, Artifacts, skipReq, useRealDebate, calls, store>>

-----------------------------------------------------------------------------
(* POST /run/{id}/skip, GET /run/{id}/status *)

\* The tickers a client asks to skip: any spelling, or nothing; a ticker already
\* in skipped.json is not asked for again.
SkipInputs == (RawTickers \cup {""}) \ {r \in RawTickers : Upper(r) \in ReadSkippedSet}

\* req.reason or "user_timeout"
DEFAULT_REASON == "user_timeout"

\* (req.ticker or "").strip().upper()
SkipTickerOf(raw) == IF raw \in {"", " "} THEN "" ELSE Upper(raw)

\* skip_ticker up to its read of status.json: 404 for an unknown run, 400 for an
\* empty ticker; otherwise add_skipped persists the ticker and the handler holds
\* the status it read.
SkipRequest(raw, reason) ==
    /\ EventLoopFree
    /\ IF status.stage = "none"
       THEN /\ resp' = [req |-> "skip", code |-> 404]
            /\ UNCHANGED <<skippedJson, skipReq>>
       ELSE IF SkipTickerOf(raw) = ""
       THEN /\ resp' = [req |-> "skip", code |-> 400]
            /\ UNCHANGED <<skippedJson, skipReq>>
       ELSE /\ skippedJson' = AddSkipped(SkipTickerOf(raw), reason)
            /\ skipReq' = Some([ticker |-> SkipTickerOf(raw),
                                 skipped_set |-> ReadSkippedSet \cup {SkipTickerOf(raw)},
                                 snapshot |-> status])
            /\ UNCHANGED resp
    /\ UNCHANGED <<status, Artifacts, workers, useRealDebate, calls, store>>

\* A skip request for a ticker not skipped before, without a reason.
SkipBegin == \E raw \in SkipInputs : SkipRequest(raw, DEFAULT_REASON)

\* The status of skip_ticker rebuilt through write_status: the stage and the
\* progress of the one it read, and the default (empty) errors.
SkipStatusRebuilt(req) ==
    StatusRecord(req.snapshot.stage, req.snapshot.done, req.snapshot.total,
                 IF req.snapshot.current = req.ticker THEN "" ELSE req.snapshot.current,
                 <<>>, Some(req.skipped_set))

\* The status skip_ticker writes back: the one it read, with the skipped list and,
\* when the skipped ticker is the current one, current cleared.
SkipStatus(req) ==
    [req.snapshot EXCEPT
        !.skipped = Some(req.skipped_set),
        !.current = IF @ = req.ticker THEN "" ELSE @]

\* skip_ticker from its write of status.json to the response.
SkipFinish ==
    /\ IsSome(skipReq)
    /\ status' = SkipStatus(Val(skipReq))
    /\ skipReq' = None
    /\ resp' = [req |-> "skip", code |-> 200]
    /\ UNCHANGED <<skippedJson, Artifacts, workers, useRealDebate, calls, store>>

\* get_run_status without its look at skipped.json: status.json as persisted.
StatusResponseStored == status

\* get_run_status: the persisted status, with the skipped list of skipped.json
\* when that is not empty.
StatusResponse ==
    IF ReadSkippedSet # {} THEN [status EXCEPT !.skipped = Some(ReadSkippedSet)] ELSE status

-----------------------------------------------------------------------------
(* The pipeline with the mock debate (no API key) *)

NoCalls == [t \in Tickers |-> [c \in Callees |-> 0]]

StoreIdle == None

Init ==
    /\ status = NoStatus
    /\ skippedJson = NoSkipped
    /\ universeJson = None
    /\ rocketScores = None
    /\ finalBuys = None
    /\ debateFiles = {}
    /\ summaryJson = None
    /\ portfolio = None
    /\ workers = <<>>
    /\ skipReq = None
    /\ resp = [req |-> "", code |-> 0]
    /\ useRealDebate = FALSE
    /\ calls = NoCalls
    /\ store = StoreIdle

Next ==
    \/ CreateRun
    \/ StartDebate
    \/ StartOptimize
    \/ SkipBegin
    \/ SkipFinish
    \/ \E w \in WorkerIds : ScoreStep(w)
    \/ \E w \in WorkerIds : DebateLoopStep(w)
    \/ \E w \in WorkerIds : OptStep(w)

Spec == Init /\ [][Next]_vars

-----------------------------------------------------------------------------
(* The debate stage with an API key: one run whose scoring stage has ended *)

\* rocket_scores.json as the scoring stage leaves it for the universe <<"A", "B">>:
\* one record per ticker, sorted by score descending.
ScoredList ==
    <<[ticker |-> "A", rocket_score |-> 75], [ticker |-> "B", rocket_score |-> 45]>>

InitDebate ==
    /\ rocketScores = Some(ScoredList)
    /\ universeJson = Some([k \in DOMAIN ScoredList |-> ScoredList[k].ticker])
    /\ status = StatusRecord("debate_ready", Len(ScoredList), Len(ScoredList), "", <<>>, None)
    /\ skippedJson = NoSkipped
    /\ finalBuys = None
    /\ debateFiles = {}
    /\ summaryJson = None
    /\ portfolio = None
    /\ workers = <<Finished("score")>>
    /\ skipReq = None
    /\ resp = [req |-> "run", code |-> 200]
    /\ useRealDebate = TRUE
    /\ calls = NoCalls
    /\ store = StoreIdle

NextDebate ==
    \/ StartDebate
    \/ SkipBegin
    \/ SkipFinish
    \/ \E w \in WorkerIds : DebateLoopStep(w)
    \/ \E w \in WorkerIds : DebateSingleStep(w)

SpecDebate == InitDebate /\ [][NextDebate]_vars

\* The debate job's thread keeps running, and every call it is suspended in
\* returns, fails or reaches its deadline: a step of the job that is possible
\* is eventually taken. (The promotion step is always possible where the job
\* stands before it; its fairness is stated on that position.)
DebateJobStep ==
    \E w \in WorkerIds :
        \/ DebateStart(w)
        \/ DebatePrecheck(w)
        \/ DebateAnnounce(w)
        \/ DebateFinalize(w)
        \/ DebateReport(w)
        \/ DebateWriteSummary(w)
        \/ DebateFinalStatus(w)
        \/ DebateSingleStep(w)

BeforePromotion ==
    \E w \in WorkerIds : workers[w].kind = "debate" /\ workers[w].pc = "promote"

\* The first skip request of the run, for either candidate.
SkipFirst ==
    /\ skippedJson = NoSkipped
    /\ \E raw \in Tickers : SkipRequest(raw, DEFAULT_REASON)

NextDebateLive ==
    \/ StartDebate
    \/ SkipFirst
    \/ SkipFinish
    \/ \E w \in WorkerIds : DebateLoopStep(w)
    \/ \E w \in WorkerIds : DebateSingleStep(w)

SpecDebateLive ==
    /\ InitDebate /\ [][NextDebateLive]_vars
    /\ WF_vars(DebateJobStep)
    /\ []<>~BeforePromotion

-----------------------------------------------------------------------------
(* The artifact store at the level of paths and inodes: two threads in
   write_artifact for status.json (the worker that owns the stage and skip_ticker),
   RunOrchestrator.write_rocket_scores, and a reader *)

MaxInodes == 5

Inodes == 1..MaxInodes

StatusPath == "status.json"
TempPath == "status.json.tmp"
ScoresPath == "rocket_scores.json"
StorePaths == {StatusPath, TempPath, ScoresPath}

ArtifactWriters == {"worker", "skip"}

\* The documents, as the blocks they take on disk: the status create_run left,
\* the worker's status, skip_ticker's status (it carries the skipped list), and
\* the scores list.
InitialDoc == <<"c", "c">>
DocOf(x) == IF x = "worker" THEN <<"w", "w">> ELSE <<"s", "s", "s">>
ScoresDoc == <<"r", "r">>
CompleteDocs == {InitialDoc, DocOf("worker"), DocOf("skip"), ScoresDoc}

Absent == <<"absent">>

\* An inode is live while a path names it or a file object is open on it.
LiveInodes(st) ==
    {st.fs[p] : p \in StorePaths} \cup {st.fd[x] : x \in ArtifactWriters} \cup {st.ofd}

FreeInode(st) == CHOOSE n \in Inodes : n \notin LiveInodes(st)

\* open(path, 'w'): the file the path names, truncated, or a new empty file.
OpenForWrite(st, path) ==
    IF st.fs[path] # 0
    THEN [st EXCEPT !.data[st.fs[path]] = <<>>]
    ELSE [st EXCEPT !.fs[path] = FreeInode(st), !.data[FreeInode(st)] = <<>>]

\* write at the file object's position pos (0-based) over what the file holds.
WriteAt(old, pos, blocks) ==
    [k \in 1..Max(Len(old), pos + Len(blocks)) |->
        IF k > pos /\ k <= pos + Len(blocks) THEN blocks[k - pos]
        ELSE IF k <= Len(old) THEN old[k] ELSE ""]

\* read_artifact: None for a path that does not exist, else the whole content.
ReadArtifact(st, path) == IF st.fs[path] = 0 THEN Absent ELSE st.data[st.fs[path]]

\* An inode no path names and no file object has open is gone.
Reclaim(st) ==
    [st EXCEPT !.data = [n \in Inodes |-> IF n \in LiveInodes(st) THEN st.data[n] ELSE <<>>]]

Pipeline == <<status, skippedJson, Artifacts, workers, skipReq, resp, useRealDebate, calls>>

\* write_artifact, open(temp_path, 'w').
ArtifactOpen(x) ==
    /\ store.pc[x] = "idle"
    /\ LET opened == OpenForWrite(store, TempPath) IN
       store' = [opened EXCEPT !.fd[x] = opened.fs[TempPath], !.pc[x] = "opened"]
    /\ UNCHANGED Pipeline

\* write_artifact, f.write(data); f.flush(); os.fsync(): the data is shorter than
\* the file object's buffer and reaches the file in one write at position 0.
ArtifactWrite(x) ==
    /\ store.pc[x] = "opened"
    /\ store' = [store EXCEPT !.data[store.fd[x]] = WriteAt(@, 0, DocOf(x)),
                              !.pc[x] = "written"]
    /\ UNCHANGED Pipeline

\* write_artifact, the end of the with block and os.replace(temp_path, filepath):
\* FileNotFoundError when the temp path names nothing any more.
ArtifactReplace(x) ==
    /\ store.pc[x] = "written"
    /\ IF store.fs[TempPath] = 0
       THEN store' = Reclaim([store EXCEPT !.fd[x] = 0, !.pc[x] = "idle",
                                           !.raised = @ \cup {x}])
       ELSE store' = Reclaim([store EXCEPT !.fs[StatusPath] = store.fs[TempPath],
                                           !.fs[TempPath] = 0, !.fd[x] = 0,
                                           !.pc[x] = "idle"])
    /\ UNCHANGED Pipeline

\* RunOrchestrator.write_rocket_scores, open(rocket_scores_path, 'w').
OrchestratorOpen ==
    /\ store.opc = "idle"
    /\ LET opened == OpenForWrite(store, ScoresPath) IN
       store' = [opened EXCEPT !.ofd = opened.fs[ScoresPath], !.opos = 0,
                               !.opc = "writing"]
    /\ UNCHANGED Pipeline

\* json.dump(scores, f, indent=2): the list is longer than the buffer and
\* reaches the file block by block.
OrchestratorWrite ==
    /\ store.opc = "writing"
    /\ store.opos < Len(ScoresDoc)
    /\ store' = [store EXCEPT
          !.data[store.ofd] = WriteAt(@, store.opos, <<ScoresDoc[store.opos + 1]>>),
          !.opos = @ + 1]
    /\ UNCHANGED Pipeline

\* The end of the with block.
OrchestratorClose ==
    /\ store.opc = "writing"
    /\ store.opos = Len(ScoresDoc)
    /\ store' = [store EXCEPT !.ofd = 0, !.opos = 0, !.opc = "idle"]
    /\ UNCHANGED Pipeline

\* A reader (get_run_status, a worker, the front end) reads an artifact.
StoreRead(path) ==
    /\ store' = [store EXCEPT !.seen = ReadArtifact(store, path), !.seenPath = path]
    /\ UNCHANGED Pipeline

StoreInit ==
    [fs |-> [p \in StorePaths |-> IF p = StatusPath THEN 1 ELSE 0],
     data |-> [n \in Inodes |-> IF n = 1 THEN InitialDoc ELSE <<>>],
     fd |-> [x \in ArtifactWriters |-> 0],
     pc |-> [x \in ArtifactWriters |-> "idle"],
     raised |-> {},
     ofd |-> 0, opos |-> 0, opc |-> "idle",
     seen |-> InitialDoc, seenPath |-> StatusPath]

InitStore ==
    /\ status = StatusRecord("debate", 0, 0, "", <<>>, None)
    /\ skippedJson = NoSkipped
    /\ universeJson = None
    /\ rocketScores = None
    /\ finalBuys = None
    /\ debateFiles = {}
    /\ summaryJson = None
    /\ portfolio = None
    /\ workers = <<>>
    /\ skipReq = None
    /\ resp = [req |-> "", code |-> 0]
    /\ useRealDebate = TRUE
    /\ calls = NoCalls
    /\ store = StoreInit

NextStore ==
    \/ \E x \in ArtifactWriters : ArtifactOpen(x)
    \/ \E x \in ArtifactWriters : ArtifactWrite(x)
    \/ \E x \in ArtifactWriters : ArtifactReplace(x)
    \/ OrchestratorOpen
    \/ OrchestratorWrite
    \/ OrchestratorClose
    \/ \E path \in {StatusPath, ScoresPath} : StoreRead(path)

SpecStore == InitStore /\ [][NextStore]_vars

-----------------------------------------------------------------------------
(* The debate stage without an API key (mock debate) over ranked lists long
   enough for the selection groups and the 8..12 forcing to matter *)

MaxRanked == 40

\* Ticker symbols, the worst-ranked first: in a list of n the ticker of rank k is
\* RankedNames[n - k + 1], so "A" is ranked last and "B" next to last.
RankedNames ==
    <<"A", "B", "C", "D", "E", "F", "G", "H", "I", "J", "K", "L", "M",
      "N", "O", "P", "Q", "R", "S", "T", "U", "V", "W", "X", "Y", "Z",
      "AA", "AB", "AC", "AD", "AE", "AF", "AG", "AH", "AI", "AJ", "AK", "AL", "AM",
      "AN", "AO", "AP">>

\* Score as a function of the rank, never increasing (rocket_scores.json is
\* written sorted by score, descending): all equal (every mock verdict is BUY
\* with confidence 80); falling by two from BUY
\* through HOLD to SELL; more than MAX_BUY mock BUYs; no mock BUY at all;
\* one BUY, two HOLDs and SELLs; and "dup", the falling list of an import that
\* named its first ticker again at the end.
ScoreProfiles == {"flat", "steep", "high", "low", "mid", "dup"}

ProfileScore(p, k) ==
    IF p = "flat" THEN 80
    ELSE IF p = "high" THEN 99 - k
    ELSE IF p = "low" THEN 60 - k
    ELSE IF p = "mid" THEN (IF k = 1 THEN 72 ELSE IF k <= 3 THEN 58 - k ELSE 45 - k)
    ELSE 90 - 2 * k

RankedList(n, p) ==
    [k \in 1..n |->
        [ticker |-> IF p = "dup" /\ k = n /\ n >= 2 THEN RankedNames[n]
                    ELSE RankedNames[n - k + 1],
         rocket_score |-> ProfileScore(p, k)]]

\* start_debate has accepted the request: the "debate" status is written and the
\* debate job submitted, with or without an extra.
InitRanked ==
    /\ \E n \in 0..MaxRanked, p \in ScoreProfiles :
          /\ rocketScores = Some(RankedList(n, p))
          /\ universeJson = Some([k \in 1..n |-> RankedList(n, p)[k].ticker])
    /\ status = StatusRecord("debate", 0, 0, "", <<>>, None)
    /\ skippedJson = NoSkipped
    /\ finalBuys = None
    /\ debateFiles = {}
    /\ summaryJson = None
    /\ portfolio = None
    /\ \E extras \in ExtrasChoices : workers = <<Finished("score"), DebateWorker(extras)>>
    /\ skipReq = None
    /\ resp = [req |-> "debate", code |-> 200]
    /\ useRealDebate = FALSE
    /\ calls = NoCalls
    /\ store = StoreIdle

\* The debate job runs; a client may ask for the optimize stage at any time.
NextRanked ==
    \/ \E w \in WorkerIds : DebateLoopStep(w)
    \/ StartOptimize
    \/ \E w \in WorkerIds : OptStep(w)

SpecRanked == InitRanked /\ [][NextRanked]_vars

-----------------------------------------------------------------------------
(* The optimizer: optimize_portfolio and optimize_fallback *)

\* The largest eligible list of the allocation runs.
MaxEligible == 8

\* round(w, 4): weights are returned in units of 1/10000; round(d, 2): dollars in
\* cents; caps are given in per cent; min(0.01, 1.0 / n / 2) is 1 per cent or less.
WEIGHT_UNITS == 10000
CENTS == 100
PERCENT == 100
MIN_WEIGHT_PERCENT == 1

\* Exact values of the float computations, as fractions.
Frac(n, d) == [num |-> n, den |-> d]

RECURSIVE GCD(_, _)
GCD(a, b) == IF b = 0 THEN a ELSE GCD(b, a % b)

Reduced(x) == LET g == GCD(x.num, x.den) IN Frac(x.num \div g, x.den \div g)
FracLess(x, y) == x.num * y.den < y.num * x.den
FracMin(x, y) == IF FracLess(y, x) THEN y ELSE x
FracAdd(x, y) == Reduced(Frac(x.num * y.den + y.num * x.den, x.den * y.den))
FracMul(x, y) == Reduced(Frac(x.num * y.num, x.den * y.den))
FracDiv(x, y) == Reduced(Frac(x.num * y.den, x.den * y.num))

RECURSIVE FracSum(_)
FracSum(list) == IF list = <<>> THEN Frac(0, 1) ELSE FracAdd(Head(list), FracSum(Tail(list)))

RECURSIVE SumOf(_)
SumOf(list) == IF list = <<>> THEN 0 ELSE Head(list) + SumOf(Tail(list))

\* round(): to the nearest, a tie to the even neighbour.
RoundHalfEven(num, den) ==
    LET q == num \div den
        r == num % den
    IN IF 2 * r < den THEN q
       ELSE IF 2 * r > den THEN q + 1
       ELSE IF q % 2 = 0 THEN q ELSE q + 1

\* round(w, 4), in units of 1/10000, and round(w * capital, 2), in cents.
RoundWeight(w) == RoundHalfEven(w.num * WEIGHT_UNITS, w.den)
RoundDollars(w, capital) == RoundHalfEven(w.num * capital * CENTS, w.den)

\* ticker_scores[t].get('sector') or 'Unknown'
SectorOf(scores, t) == TickerScores(scores)[t].sector

\* sector_map[sector]: the eligible tickers of a sector, by position.
SectorMembers(scores, eligible, sector) ==
    {k \in DOMAIN eligible : SectorOf(scores, eligible[k]) = sector}

\* One entry of 'allocations'.
Allocation(scores, ticker, weight, cents) ==
    [ticker |-> ticker, weight |-> weight, cents |-> cents,
     sector |-> SectorOf(scores, ticker)]

\* for ticker in eligible: if w > 0.001: allocations.append(...)
RECURSIVE FallbackAllocations(_, _, _, _)
FallbackAllocations(scores, eligible, weights, capital) ==
    IF eligible = <<>> THEN <<>>
    ELSE (IF FracLess(Frac(1, 1000), Head(weights))
          THEN <<Allocation(scores, Head(eligible), RoundWeight(Head(weights)),
                            RoundDollars(Head(weights), capital))>>
          ELSE <<>>)
         \o FallbackAllocations(scores, Tail(eligible), Tail(weights), capital)

\* optimize_fallback: equal weights capped at max_weight, each sector scaled
\* down to sector_cap, normalised if the total exceeds 1, then rounded.
OptimizeFallback(scores, eligible, params) ==
    LET n == Len(eligible)
        base_weight == Frac(1, n)
        capped == FracMin(base_weight, Frac(params.max_weight, PERCENT))
        sector_cap == Frac(params.sector_cap, PERCENT)
        sector_weight(k) ==
            FracMul(Frac(Cardinality(SectorMembers(scores, eligible,
                                                   SectorOf(scores, eligible[k]))), 1),
                    capped)
        scaled == [k \in 1..n |->
                      IF FracLess(sector_cap, sector_weight(k))
                      THEN FracMul(capped, FracDiv(sector_cap, sector_weight(k)))
                      ELSE capped]
        total == FracSum(scaled)
        weights == IF FracLess(Frac(1, 1), total)
                   THEN [k \in 1..n |-> FracDiv(scaled[k], total)]
                   ELSE scaled
    IN [optimizer |-> "fallback",
        allocations |-> SortStable(FallbackAllocations(scores, eligible, weights,
                                                       params.capital), "weight")]

\* min_weight = min(0.01, 1.0 / n / 2)
MinWeight(n) == FracMin(Frac(MIN_WEIGHT_PERCENT, PERCENT), Frac(1, 2 * n))

\* The constraints of the problem can be met: sum(w) <= 1,
\* min_weight <= w <= max_weight, every sector's weight <= sector_cap.
Feasible(scores, eligible, params) ==
    LET n == Len(eligible) IN
    /\ ~FracLess(Frac(params.max_weight, PERCENT), MinWeight(n))
    /\ \A k \in 1..n :
          ~FracLess(Frac(params.sector_cap, PERCENT),
                    FracMul(Frac(Cardinality(SectorMembers(scores, eligible,
                                                           SectorOf(scores, eligible[k]))), 1),
                            MinWeight(n)))

\* Points of the feasible set the solver may return as w.value: every weight at
\* its floor, or every weight at the largest equal share its caps allow (the
\* optimum when the scores are equal and the covariance is the diagonal one).
SolverPoints == {"floor", "equal"}

SolverValue(scores, eligible, params, point) ==
    LET n == Len(eligible) IN
    [k \in 1..n |->
        IF point = "floor" THEN MinWeight(n)
        ELSE FracMin(FracMin(Frac(1, n), Frac(params.max_weight, PERCENT)),
                     Frac(params.sector_cap,
                          PERCENT * Cardinality(SectorMembers(scores, eligible,
                                                              SectorOf(scores, eligible[k])))))]

\* optimize_portfolio after an optimal solve: normalise w.value if it exceeds 1,
\* round, sort by weight, and divide once more if the rounded total exceeds 1.
OptimizePortfolio(scores, eligible, params, point) ==
    LET n == Len(eligible)
        value == SolverValue(scores, eligible, params, point)
        total == FracSum(value)
        weights == IF FracLess(Frac(1, 1), total)
                   THEN [k \in 1..n |-> FracDiv(value[k], total)]
                   ELSE value
        allocations ==
            SortStable([k \in 1..n |->
                           Allocation(scores, eligible[k], RoundWeight(weights[k]),
                                      RoundDollars(weights[k], params.capital))],
                       "weight")
        total_weight == SumOf([k \in 1..n |-> allocations[k].weight])
    IN [optimizer |-> "CVXPY",
        allocations |->
            IF total_weight > WEIGHT_UNITS
            THEN [k \in 1..n |->
                     LET weight == RoundHalfEven(allocations[k].weight * WEIGHT_UNITS,
                                                 total_weight)
                     IN [allocations[k] EXCEPT
                            !.weight = weight,
                            !.cents = RoundHalfEven(weight * params.capital,
                                                    WEIGHT_UNITS \div CENTS)]]
            ELSE allocations]

\* optimize_portfolio inside run_optimize_pipeline: an optimal solve of a
\* feasible problem, any other solver status (the fallback is returned), or
\* every solver attempt raising (the handler writes "error").
OptAllocate(w) ==
    /\ workers[w].kind = "optimize" /\ workers[w].pc = "solve"
    /\ LET scores == Val(rocketScores)
           eligible == workers[w].eligible
           params == workers[w].params
       IN \E outcome \in SolverOutcomes, point \in SolverPoints :
             IF outcome = "raises"
             THEN /\ status' = OptimizeErrorStatus("solver error")
                  /\ SetWorker(w, Finished("optimize"))
                  /\ UNCHANGED portfolio
             ELSE /\ outcome = "optimal" => Feasible(scores, eligible, params)
                  /\ portfolio' = Some(IF outcome = "optimal"
                                       THEN OptimizePortfolio(scores, eligible, params, point)
                                       ELSE OptimizeFallback(scores, eligible, params))
                  /\ SetWorker(w, [workers[w] EXCEPT !.pc = "final"])
                  /\ UNCHANGED status
    /\ UNCHANGED <<universeJson, rocketScores, finalBuys, debateFiles, summaryJson,
                   WorkerFrame>>

\* GICS sectors of the scored tickers.
SectorNames ==
    <<"Technology", "Energy", "Financials", "Health Care", "Industrials", "Utilities",
      "Materials", "Real Estate", "Consumer Staples", "Consumer Discretionary",
      "Communication Services">>

\* How the eligible tickers spread over sectors: each its own, the first four
\* without a sector ('Unknown') and the others their own, the first three one
\* and the others their own, or two by two.
SectorPatterns == {"own", "four", "triple", "pairs"}

PatternSector(pattern, k) ==
    IF pattern = "four" /\ k <= 4 THEN "Unknown"
    ELSE IF pattern = "triple" /\ k <= 3 THEN SectorNames[1]
    ELSE IF pattern = "pairs" THEN SectorNames[(k + 1) \div 2]
    ELSE SectorNames[k]

\* OptimizeRequest: capital (default 10000), max_weight (default 0.12, from 0.05
\* to 0.50) and sector_cap (default 0.35, from 0.15 to 0.60), the caps in per
\* cent. With these values no rounding of the runs meets a tie, where the binary
\* value of the float would decide.
CapitalChoices == {10000, 2500}
MaxWeightChoices == {12, 20, 50}
SectorCapChoices == {15, 35, 60}

\* start_optimize has accepted the request for a run whose final_buys.json
\* names n scored tickers.
InitAlloc ==
    /\ \E n \in 1..MaxEligible, pattern \in SectorPatterns :
          /\ rocketScores = Some([k \in 1..n |->
                                     [ticker |-> RankedNames[k], rocket_score |-> 80,
                                      sector |-> PatternSector(pattern, k)]])
          /\ universeJson = Some([k \in 1..n |-> RankedNames[k]])
          /\ finalBuys = Some([k \in 1..n |-> [ticker |-> RankedNames[k]]])
    /\ \E capital \in CapitalChoices, max_weight \in MaxWeightChoices,
          sector_cap \in SectorCapChoices :
          workers = <<Finished("score"), Finished("debate"),
                      [kind |-> "optimize", pc |-> "queued", eligible |-> <<>>,
                       params |-> [capital |-> capital, max_weight |-> max_weight,
                                   sector_cap |-> sector_cap]]>>
    /\ status = StatusRecord("optimize", 0, 0, "", <<>>, None)
    /\ skippedJson = NoSkipped
    /\ debateFiles = {}
    /\ summaryJson = None
    /\ portfolio = None
    /\ skipReq = None
    /\ resp = [req |-> "optimize", code |-> 200]
    /\ useRealDebate = FALSE
    /\ calls = NoCalls
    /\ store = StoreIdle

NextAlloc ==
    \E w \in WorkerIds :
        \/ OptStart(w)
        \/ OptAllocate(w)
        \/ OptFinalStatus(w)

SpecAlloc == InitAlloc /\ [][NextAlloc]_vars

-----------------------------------------------------------------------------
(* Skip requests of every kind: for an unknown run, or for a run from the end
   of its scoring stage on, with the mock debate *)

\* What a client may send as ticker (any spelling, nothing, or blanks) and as
\* reason.
AnySkipInputs == RawTickers \cup {"", " "}
SkipReasons == {DEFAULT_REASON, "manual"}

\* A skip request, whether or not the ticker is skipped already.
SkipAny == \E raw \in AnySkipInputs, reason \in SkipReasons : SkipRequest(raw, reason)

InitSkip ==
    /\ \E known \in BOOLEAN :
          IF known
          THEN /\ rocketScores = Some(ScoredList)
               /\ universeJson = Some([k \in DOMAIN ScoredList |-> ScoredList[k].ticker])
               /\ status = StatusRecord("debate_ready", Len(ScoredList), Len(ScoredList),
                                        "", <<>>, None)
               /\ workers = <<Finished("score")>>
               /\ resp = [req |-> "run", code |-> 200]
          ELSE /\ rocketScores = None
               /\ universeJson = None
               /\ status = NoStatus
               /\ workers = <<>>
               /\ resp = [req |-> "", code |-> 0]
    /\ skippedJson = NoSkipped
    /\ finalBuys = None
    /\ debateFiles = {}
    /\ summaryJson = None
    /\ portfolio = None
    /\ skipReq = None
    /\ useRealDebate = FALSE
    /\ calls = NoCalls
    /\ store = StoreIdle

NextSkip ==
    \/ StartDebate
    \/ StartOptimize
    \/ SkipAny
    \/ SkipFinish
    \/ \E w \in WorkerIds : DebateLoopStep(w)
    \/ \E w \in WorkerIds : OptStep(w)

SpecSkip == InitSkip /\ [][NextSkip]_vars

-----------------------------------------------------------------------------
(* A debate started twice: start_debate has accepted two requests for the run
   and both debate jobs are in the pool, with an API key *)

InitRepeat ==
    /\ rocketScores = Some(ScoredList)
    /\ universeJson = Some([k \in DOMAIN ScoredList |-> ScoredList[k].ticker])
    /\ status = StatusRecord("debate", 0, 0, "", <<>>, None)
    /\ skippedJson = NoSkipped
    /\ finalBuys = None
    /\ debateFiles = {}
    /\ summaryJson = None
    /\ portfolio = None
    /\ workers = <<Finished("score"), DebateWorker(<<>>), DebateWorker(<<>>)>>
    /\ skipReq = None
    /\ resp = [req |-> "debate", code |-> 200]
    /\ useRealDebate = TRUE
    /\ calls = NoCalls
    /\ store = StoreIdle

\* The job submitted first, and its context-assembly call for its first
\* candidate: the request is slow and stays outstanding (up to its 15 s
\* timeout) while the other job goes on.
FirstJob ==
    CHOOSE w \in WorkerIds :
        /\ workers[w].kind = "debate"
        /\ \A v \in WorkerIds : workers[v].kind = "debate" => w <= v
SlowCall(w) == w = FirstJob /\ workers[w].pc = "news" /\ workers[w].i = 1

\* No skip is requested, so the heartbeats only log.
RunningJobs == {w \in WorkerIds : ~SlowCall(w)}

NextRepeat ==
    \/ \E w \in RunningJobs : DebateLoopStep(w)
    \/ \E w \in RunningJobs : DebateRecheck(w)
    \/ \E w \in RunningJobs : SingleNewsStatus(w)
    \/ \E w \in RunningJobs : SingleFetchNews(w)
    \/ \E w \in RunningJobs : SingleAfterNews(w)
    \/ \E w \in RunningJobs : \E r \in Roles : RoleStart(w, r)
    \/ \E w \in RunningJobs : \E r \in Roles : RolePost(w, r)
    \/ \E w \in RunningJobs : \E r \in Roles : RoleResponse(w, r)
    \/ \E w \in RunningJobs : SingleFanIn(w)
    \/ \E w \in RunningJobs : SingleJudgeStatus(w)
    \/ \E w \in RunningJobs : SingleJudgeGate(w)
    \/ \E w \in RunningJobs : JudgeStart(w)
    \/ \E w \in RunningJobs : JudgePost(w)
    \/ \E w \in RunningJobs : JudgeResponse(w)
    \/ \E w \in RunningJobs : JudgeTimeout(w)
    \/ \E w \in RunningJobs : SingleDone(w)
    \/ \E w \in RunningJobs : DebateTimeout(w)
    \/ \E w \in RunningJobs : DebateExcept(w)
    \/ \E w \in RunningJobs : DebateErrorReport(w)

SpecRepeat == InitRepeat /\ [][NextRepeat]_vars

-----------------------------------------------------------------------------
(* get_sp500_tickers: the Symbol column of the Wikipedia table, or of the
   fallback CSV, cleaned into the ticker list *)

MIN_TICKERS == 450
MAX_RETRIES == 3
MaxMessy == 2

\* A string is a sequence of characters. A cell of the column is a string, or
\* NaN where the table has no value.
NaN == <<"NaN">>
DigitChars == <<"0", "1", "2", "3", "4", "5", "6", "7", "8", "9">>

\* .astype(str): NaN becomes "nan".
AsStr(cell) == IF cell = NaN THEN <<"n", "a", "n">> ELSE cell

\* .str.strip(): leading and trailing blanks go.
RECURSIVE StrStrip(_)
StrStrip(t) ==
    IF t = <<>> THEN <<>>
    ELSE IF Head(t) = " " THEN StrStrip(Tail(t))
    ELSE IF t[Len(t)] = " " THEN StrStrip(SubSeq(t, 1, Len(t) - 1))
    ELSE t

\* .str.upper(), over the letters the cells use.
UpperChar(c) ==
    CASE c = "a" -> "A"
      [] c = "b" -> "B"
      [] c = "k" -> "K"
      [] c = "n" -> "N"
      [] c = "r" -> "R"
      [] c = "t" -> "T"
      [] OTHER -> c
StrUpper(t) == [k \in DOMAIN t |-> UpperChar(t[k])]

\* t.replace('.', '-')
ReplaceDots(t) == [k \in DOMAIN t |-> IF t[k] = "." THEN "-" ELSE t[k]]

\* [t for t in tickers if t]
NonEmpty(t) == t # <<>>

\* list(dict.fromkeys(tickers)): the first occurrence of each key, in order.
DictFromKeys(tickers) ==
    LET numbered == [k \in DOMAIN tickers |-> <<k, tickers[k]>>]
        IsFirst(p) == \A j \in 1..(p[1] - 1) : tickers[j] # p[2]
        firsts == SelectSeq(numbered, IsFirst)
    IN [k \in DOMAIN firsts |-> firsts[k][2]]

\* sp500_table['Symbol'].astype(str).str.strip().str.upper().tolist()
ColumnToList(column) == [k \in DOMAIN column |-> StrUpper(StrStrip(AsStr(column[k])))]

\* Wikipedia: dots replaced on every entry, then the empty ones dropped and the
\* list de-duplicated.
CleanWikipedia(column) ==
    LET tickers == ColumnToList(column)
        dashed == [k \in DOMAIN tickers |-> ReplaceDots(tickers[k])]
    IN DictFromKeys(SelectSeq(dashed, NonEmpty))

\* Fallback CSV: the empty entries dropped while the dots are replaced, then
\* dropped again and the list de-duplicated.
CleanCsv(column) ==
    LET tickers == ColumnToList(column)
        kept == SelectSeq(tickers, NonEmpty)
        dashed == [k \in DOMAIN kept |-> ReplaceDots(kept[k])]
    IN DictFromKeys(SelectSeq(dashed, NonEmpty))

\* The call: the column both sources hold, whether the fallback file exists, the
\* attempt of the Wikipedia loop, the attempts that failed, and the list returned.
Sp500Call(column, csv_exists) ==
    [kind |-> "sp500", pc |-> "wikipedia", attempt |-> 0, failed |-> 0, column |-> column,
     csv_exists |-> csv_exists, tickers |-> <<>>, source |-> ""]

\* The except clause without the retry: the first failure goes to the fallback.
Sp500RetryNever(me) == [me EXCEPT !.failed = @ + 1, !.pc = "fallback"]

\* except Exception in the retry loop: sleep and try again, or fall through to
\* the fallback after the last attempt ("failed" counts the attempts that raised).
Sp500Retry(me) ==
    IF me.attempt < MAX_RETRIES - 1
    THEN [me EXCEPT !.failed = @ + 1, !.attempt = @ + 1]
    ELSE [me EXCEPT !.failed = @ + 1, !.pc = "fallback"]

\* One attempt at Wikipedia: the request or the parse fails, or the Symbol
\* column is cleaned and returned unless it has fewer than 450 entries.
Sp500Wikipedia(w) ==
    /\ workers[w].kind = "sp500" /\ workers[w].pc = "wikipedia"
    /\ LET me == workers[w]
           tickers == CleanWikipedia(me.column)
       IN \/ SetWorker(w, Sp500Retry(me))
          \/ SetWorker(w, IF Len(tickers) < MIN_TICKERS
                          THEN Sp500Retry(me)
                          ELSE [me EXCEPT !.pc = "returned", !.tickers = tickers,
                                          !.source = "wikipedia"])
    /\ UNCHANGED <<status, Artifacts, WorkerFrame>>

\* The fallback: no file, or too few entries, raises RuntimeError; otherwise the
\* cleaned column is returned.
Sp500Fallback(w) ==
    /\ workers[w].kind = "sp500" /\ workers[w].pc = "fallback"
    /\ LET me == workers[w]
           tickers == CleanCsv(me.column)
       IN SetWorker(w, IF ~me.csv_exists \/ Len(tickers) < MIN_TICKERS
                       THEN [me EXCEPT !.pc = "raised"]
                       ELSE [me EXCEPT !.pc = "returned", !.tickers = tickers,
                                       !.source = "csv"])
    /\ UNCHANGED <<status, Artifacts, WorkerFrame>>

\* Columns: a few cells that need cleaning (lower case with a dot, a blank in
\* front, no value, only a blank, a lower-case repeat of a listed symbol), then
\* distinct clean symbols T001, T002, ... around the threshold.
Listed(n) ==
    [k \in 1..n |-> <<"T", DigitChars[(k \div 100) + 1], DigitChars[((k \div 10) % 10) + 1],
                      DigitChars[(k % 10) + 1]>>]
MessyCells ==
    {<<"b", "r", "k", ".", "b">>, <<" ", "B", "R", "K", "-", "B">>, NaN, <<" ">>,
     <<"t", "0", "0", "1">>}
ListedSizes == (MIN_TICKERS - 2)..(MIN_TICKERS + 1)
Columns == {messy \o Listed(n) : messy \in SeqsUpTo(MessyCells, MaxMessy), n \in ListedSizes}

InitUniverse ==
    /\ rocketScores = None
    /\ universeJson = None
    /\ status = StatusRecord("rocket", 0, SP500_ESTIMATE, "", <<>>, None)
    /\ skippedJson = NoSkipped
    /\ finalBuys = None
    /\ debateFiles = {}
    /\ summaryJson = None
    /\ portfolio = None
    /\ \E column \in Columns, csv_exists \in BOOLEAN :
          workers = <<Sp500Call(column, csv_exists)>>
    /\ skipReq = None
    /\ resp = [req |-> "run", code |-> 200]
    /\ useRealDebate = FALSE
    /\ calls = NoCalls
    /\ store = StoreIdle

NextUniverse ==
    \/ \E w \in WorkerIds : Sp500Wikipedia(w)
    \/ \E w \in WorkerIds : Sp500Fallback(w)

SpecUniverse == InitUniverse /\ [][NextUniverse]_vars

-----------------------------------------------------------------------------
(* Run ids: create-run requests arriving at a clock with sub-second ticks *)

MaxRuns == 2
MaxTicks == 3
TicksPerSecond == 2

\* The instants datetime.now(UTC) may return, in ticks.
Times == 0..MaxTicks

\* generate_run_id: strftime("%Y%m%d_%H%M%S") of now; the fraction of the second
\* is dropped, the day and the time of day are kept.
generate_run_id(now) ==
    LET seconds == now \div TicksPerSecond IN
    <<seconds \div 86400, (seconds % 86400) \div 3600, (seconds % 3600) \div 60,
      seconds % 60>>

\* The scoring job of a run, with the id of its run and the instant of its request.
RunWorker(mode, tickers, now) ==
    [kind |-> "score", pc |-> "queued", mode |-> mode, tickers |-> tickers,
     ticker_list |-> <<>>, i |-> 1, completed |-> 0, rocket_scores |-> <<>>,
     current_total |-> 0, run_id |-> generate_run_id(now), created |-> now]

\* The run directory whose status.json the variable status stands for: the one
\* the first request created.
RunDir == workers[1].run_id

\* create_run at the instant now, not before the request that preceded it. The
\* status is written into the directory named by the id: the modelled one when
\* the id is that of the first request.
CreateRunAt(now) ==
    /\ Len(workers) < MaxRuns
    /\ EventLoopFree
    /\ workers # <<>> => now >= workers[Len(workers)].created
    /\ \E mode \in {"sp500", "import"} :
       \E tickers \in (IF mode = "import" THEN ImportLists ELSE {<<>>}) :
          IF mode = "import" /\ Len(tickers) = 0
          THEN /\ resp' = [req |-> "run", code |-> 400]
               /\ UNCHANGED <<status, workers>>
          ELSE /\ status' = IF workers = <<>> \/ generate_run_id(now) = RunDir
                            THEN StatusRecord("starting", 0,
                                     IF mode = "import" THEN Len(tickers) ELSE SP500_ESTIMATE,
                                     "", <<>>, None)
                            ELSE status
               /\ workers' = Append(workers, RunWorker(mode, tickers, now))
               /\ resp' = [req |-> "run", code |-> 200]
    /\ UNCHANGED <<skippedJson, Artifacts, skipReq, useRealDebate, calls, store>>

\* The scoring jobs that write into the modelled run directory.
RunDirJobs == {w \in WorkerIds : workers[w].run_id = RunDir}

NextRuns ==
    \/ \E now \in Times : CreateRunAt(now)
    \/ \E w \in RunDirJobs : ScoreStart(w)
    \/ \E w \in RunDirJobs : ScoreUniverseStatus(w)

SpecRuns == Init /\ [][NextRuns]_vars

-----------------------------------------------------------------------------
(* Properties *)

DebateWorkers == {w \in WorkerIds : workers[w].kind = "debate" /\ workers[w].pc # "finished"}
ScoreWorkers == {w \in WorkerIds : workers[w].kind = "score" /\ workers[w].pc # "finished"}

InSlot(w) ==
    /\ w \in DebateWorkers
    /\ workers[w].candidates # <<>>
    /\ workers[w].i <= Len(workers[w].candidates)

\* The skipped marker: skipped, HOLD, confidence 0.
IsMarker(summary, t) ==
    /\ t \in DOMAIN summary.byTicker
    /\ summary.byTicker[t].skipped
    /\ summary.byTicker[t].verdict = "HOLD"
    /\ summary.byTicker[t].confidence = 0

StageEdges ==
    {<<"none", "starting">>, <<"starting", "rocket">>, <<"rocket", "debate_ready">>,
     <<"debate_ready", "debate">>, <<"debate", "debate_ready">>,
     <<"debate_ready", "optimize">>, <<"optimize", "done">>}

NonTerminalStages == {"starting", "rocket", "debate_ready", "debate", "optimize"}

\* C1: every change of the persisted stage is one of the edges starting -> rocket
\* (scoring) -> debate_ready -> debate -> debate_ready -> optimize (optimizing)
\* -> done, or a move to error from a non-terminal stage; done and error are never
\* left. (The creation of the status, from no status to starting, is the first edge.)
C1_StageChangesFollowEdges ==
    [][status'.stage # status.stage =>
          \/ <<status.stage, status'.stage>> \in StageEdges
          \/ status'.stage = "error" /\ status.stage \in NonTerminalStages]_vars

\* C2: when the debate of a candidate has ended and the loop decides its result
\* with the candidate in the skipped set, the result is the skipped marker
\* (skipped, HOLD, confidence 0), the verdict is not recorded and the loop goes on
\* to the next candidate. The one decision left out is that of a debate the 20 s
\* timeout ended: that error is raised only for a candidate that was not in the
\* skipped set after its calls were gone (second conjunct).
C2_SkipWinsOverLateSuccess ==
    [][\A w \in WorkerIds :
          (InSlot(w) /\ workers'[w] # workers[w]) =>
             /\ (/\ workers[w].pc \in {"finalize", "except"}
                 /\ workers[w].err # "timeout"
                 /\ CurTicker(workers[w]) \in ReadSkippedSet)
                => /\ workers'[w].kind = "debate" /\ workers'[w].pc = "loop"
                   /\ workers'[w].i = workers[w].i + 1
                   /\ IsMarker(workers'[w].summary, CurTicker(workers[w]))
                   /\ CurTicker(workers[w]) \notin SeqToSet(workers'[w].summary.buy)
                   /\ CurTicker(workers[w]) \notin SeqToSet(workers'[w].summary.sell)
                   /\ debateFiles' = debateFiles \cup {<<CurTicker(workers[w]), "skipped">>}
             /\ (workers'[w].err = "timeout" /\ workers[w].err # "timeout")
                => CurTicker(workers[w]) \notin ReadSkippedSet]_vars

\* C2 witness: the aggregation call has returned a verdict (ENTER), the candidate
\* is in the skipped set, and the loop is about to decide the result.
C2_Witness ==
    \E w \in WorkerIds :
        /\ InSlot(w)
        /\ workers[w].pc = "finalize"
        /\ workers[w].jst = "ok"
        /\ workers[w].judge.verdict = "ENTER"
        /\ CurTicker(workers[w]) \in ReadSkippedSet

NoCallsFor(t) == \A c \in Callees : calls[t][c] = 0

\* C3: with the candidate in the skipped set before its debate begins (at the
\* pre-check, at the "Analyzing" status, at the check right before the debate, or
\* in the handler of that check's exception), every step of the loop makes no call
\* and leads to the skipped marker: the pre-check records it at once.
C3_SkippedBeforeDebateMakesNoCall ==
    [][\A w \in WorkerIds :
          (/\ InSlot(w) /\ workers'[w] # workers[w]
           /\ CurTicker(workers[w]) \in ReadSkippedSet
           /\ \/ workers[w].pc \in {"loop", "announce", "recheck"}
              \/ workers[w].pc = "except" /\ workers[w].err = SKIP_MSG
                                          /\ NoCallsFor(CurTicker(workers[w])))
          => /\ calls' = calls
             /\ workers'[w].kind = "debate"
             /\ IF workers[w].pc \in {"loop", "except"}
                THEN /\ workers'[w].pc = "loop"
                     /\ workers'[w].i = workers[w].i + 1
                     /\ IsMarker(workers'[w].summary, CurTicker(workers[w]))
                     /\ <<CurTicker(workers[w]), "skipped">> \in debateFiles'
                ELSE IF workers[w].pc = "announce"
                THEN workers'[w].pc = "recheck" /\ workers'[w].i = workers[w].i
                ELSE /\ workers'[w].pc = "except" /\ workers'[w].err = SKIP_MSG
                     /\ workers'[w].i = workers[w].i]_vars

\* C3 witness: a candidate has the skipped marker, its slot is over, and no
\* news, role or judge call was made for it.
C3_Witness ==
    \E w \in DebateWorkers : \E k \in DOMAIN workers[w].candidates :
        /\ k < workers[w].i
        /\ IsMarker(workers[w].summary, workers[w].candidates[k].ticker)
        /\ NoCallsFor(workers[w].candidates[k].ticker)
        /\ <<workers[w].candidates[k].ticker, "skipped">> \in debateFiles

\* C4: once the watcher of an outstanding role or judge call has polled and
\* found the candidate in the skipped set (its task has ended), the call is no
\* longer outstanding.
C4_WatcherCancelsOutstandingCall ==
    \A w \in DebateWorkers :
        /\ \A r \in Roles : workers[w].hb[r] = "ended" => workers[w].roles[r] # "outstanding"
        /\ workers[w].jhb = "ended" => workers[w].jst # "outstanding"

\* C5: at no time are two stage functions of the run running.
C5_OneWorkerAtATime == NumRunning <= 1

\* C6: whatever a reader reads from an artifact path is a complete document, or
\* the path does not exist.
C6_ReaderSeesCompleteArtifact ==
    store # StoreIdle => store.seen \in CompleteDocs \cup {Absent}

\* C7: a start-debate request for a run without rocket_scores.json is rejected
\* (404 or 400) and changes neither the status, nor any artifact, nor the skipped
\* set, and submits no worker.
C7_StartDebateRejectedWithoutScores ==
    [][(StartDebate /\ ~IsSome(rocketScores)) =>
          /\ resp'.req = "debate" /\ resp'.code \in {400, 404}
          /\ status' = status
          /\ Artifacts' = Artifacts
          /\ skippedJson' = skippedJson
          /\ workers' = workers]_vars

\* C7 witness: the request was answered 400 for an existing run that has no
\* rocket_scores.json, and no debate worker exists.
C7_Witness ==
    /\ resp = [req |-> "debate", code |-> 400]
    /\ status.stage # "none"
    /\ ~IsSome(rocketScores)
    /\ NumOfKind("debate") = 0

\* final_buys.json's items that are scored: the eligible set of the optimizer.
EligibleNow ==
    IF IsSome(finalBuys) /\ IsSome(rocketScores)
    THEN Eligible(Val(finalBuys), TickersOf(Val(rocketScores)))
    ELSE <<>>

\* C8: the stage changes from debate_ready to optimize only with a non-empty
\* eligible set.
C8_OptimizeOnlyWithEligibleSet ==
    [][(status.stage = "debate_ready" /\ status'.stage = "optimize") =>
          EligibleNow # <<>>]_vars

\* C9: within a stage the total of successive status snapshots never decreases,
\* and a status that moves the run to error carries the total of the status
\* before it.
C9_TotalNeverDecreases ==
    [][/\ (status'.stage = status.stage) => status'.total >= status.total
       /\ (status'.stage = "error" /\ status.stage \notin {"error", "none"})
             => status'.total = status.total]_vars

HasTerminalEntry(summary, t) ==
    /\ t \in DOMAIN summary.byTicker
    /\ LET e == summary.byTicker[t] IN
       /\ e.verdict \in {"BUY", "HOLD", "SELL"}
       /\ e.verdict = "BUY" => t \in SeqToSet(summary.buy)
       /\ e.verdict = "HOLD" => t \in SeqToSet(summary.hold)
       /\ e.verdict = "SELL" => t \in SeqToSet(summary.sell)
       /\ e.skipped => IsMarker(summary, t) /\ t \in SeqToSet(summary.skipped)
       /\ e.error => e.verdict = "HOLD"

\* C11: when a debate worker writes the stage debate_ready, debate_summary.json
\* exists and holds a terminal entry (verdict, skipped marker or errored-to-HOLD)
\* for every candidate the worker selected.
C11_DebateReadyAfterAllTerminal ==
    [][\A w \in WorkerIds :
          (/\ w \in DebateWorkers /\ workers'[w] # workers[w]
           /\ status' # status /\ status'.stage = "debate_ready")
          => /\ IsSome(summaryJson)
             /\ workers[w].i = Len(workers[w].candidates) + 1
             /\ \A k \in DOMAIN workers[w].candidates :
                   HasTerminalEntry(Val(summaryJson), workers[w].candidates[k].ticker)]_vars

\* C11 witness: the debate worker has ended with debate_ready, and the summary
\* holds a skipped marker for one candidate and an errored-to-HOLD entry for another.
C11_Witness ==
    /\ status.stage = "debate_ready"
    /\ \E w \in WorkerIds : workers[w] = Finished("debate")
    /\ IsSome(summaryJson)
    /\ \E t1, t2 \in DOMAIN Val(summaryJson).byTicker :
          /\ IsMarker(Val(summaryJson), t1)
          /\ Val(summaryJson).byTicker[t2].error

\* C12: the step of the optimize worker that runs the solver never writes the
\* error stage: whatever the solver does, a portfolio (the solver's or the
\* equal-weight fallback) is written and the worker goes on to write done.
C12_SolverFailureFallsBack ==
    [][\A w \in WorkerIds :
          (/\ workers[w].kind = "optimize" /\ workers[w].pc = "solve"
           /\ workers'[w] # workers[w])
          => /\ status'.stage # "error"
             /\ IsSome(portfolio')
             /\ workers'[w].kind = "optimize" /\ workers'[w].pc = "final"]_vars

AllRolesFailed(me) == \A r \in Roles : me.roles[r] = "stub"

C14_AllRolesFailedGivesFallback ==
    [][\A w \in WorkerIds :
          (/\ InSlot(w) /\ workers[w].pc = "finalize" /\ workers'[w].pc = "report"
           /\ AllRolesFailed(workers[w]))
          => /\ calls[CurTicker(workers[w])]["judge"] >= 1
             /\ workers'[w].summary.byTicker[CurTicker(workers[w])].verdict = "HOLD"
             /\ workers'[w].summary.byTicker[CurTicker(workers[w])].confidence
                    <= JUDGE_DEFAULT_CONFIDENCE]_vars

Selected == {w \in DebateWorkers : workers[w].pc # "queued"}

\* The ranking a debate worker selected from.
RankingOf(me) == SortStable(me.scores, "score")

\* C16: the candidates a debate worker selected have pairwise distinct tickers;
\* each recorded rank is a position of the ranking that holds the candidate's
\* ticker, and for the head and edge groups it is the position the candidate
\* was taken from.
C16_CandidatesDistinctAndRanked ==
    \A w \in Selected :
        LET c == workers[w].candidates
            ranking == RankingOf(workers[w])
        IN /\ \A i, j \in DOMAIN c : i # j => c[i].ticker # c[j].ticker
           /\ \A i \in DOMAIN c :
                 /\ c[i].rank \in DOMAIN ranking
                 /\ ranking[c[i].rank].ticker = c[i].ticker
                 /\ c[i].selection_group \in {"top23", "edge"} => c[i].rank = i

\* First position (1-based) of the bottom quartile of a ranking of length total.
QuartileStart(total) == ((total * 3) \div 4) + 1

\* C17: every candidate tagged best_of_worst has its rank in the bottom quartile
\* of the ranking, and no entry of that quartile whose ticker was not selected
\* has a higher score.
C17_BestOfWorstWithinQuartile ==
    \A w \in Selected :
        LET c == workers[w].candidates
            ranking == RankingOf(workers[w])
            total == Len(ranking)
        IN \A i \in DOMAIN c :
              c[i].selection_group = "best_of_worst"
              => /\ c[i].rank \in QuartileStart(total)..total
                 /\ \A k \in QuartileStart(total)..total :
                       ranking[k].ticker \notin TickersOf(c)
                       => c[i].rocket_score >= ranking[k].rocket_score

\* C17 witness: a best_of_worst candidate was selected while an entry of the
\* bottom quartile with a strictly lower score was left out.
C17_Witness ==
    \E w \in Selected :
        LET c == workers[w].candidates
            ranking == RankingOf(workers[w])
        IN \E i \in DOMAIN c, k \in DOMAIN ranking :
              /\ c[i].selection_group = "best_of_worst"
              /\ k >= QuartileStart(Len(ranking))
              /\ ranking[k].ticker \notin TickersOf(c)
              /\ ranking[k].rocket_score < c[i].rocket_score

DistinctTickers(list) == \A i, j \in DOMAIN list : i # j => list[i].ticker # list[j].ticker

\* C18: when a debate worker started without extras selects from a ranking of at
\* least 30 distinct tickers, it gets exactly 30 candidates: positions 1..23 of
\* the ranking tagged top23 with ranks 1..23, positions 24..28 tagged edge with
\* ranks 24..28, then two tagged best_of_worst.
C18_ThirtyCandidatesInOrder ==
    [][\A w \in WorkerIds :
          (/\ workers[w].kind = "debate" /\ workers[w].pc = "queued"
           /\ workers'[w] # workers[w]
           /\ workers[w].extras = <<>>
           /\ IsSome(rocketScores)
           /\ Len(Val(rocketScores)) >= TOP_N + (EDGE_END - TOP_N) + BEST_OF_WORST_N
           /\ DistinctTickers(Val(rocketScores)))
          => LET c == workers'[w].candidates
                 ranking == SortStable(Val(rocketScores), "score")
             IN /\ Len(c) = TOP_N + (EDGE_END - TOP_N) + BEST_OF_WORST_N
                /\ \A k \in 1..EDGE_END :
                      /\ c[k].ticker = ranking[k].ticker
                      /\ c[k].rank = k
                      /\ c[k].selection_group = IF k <= TOP_N THEN "top23" ELSE "edge"
                /\ \A k \in (EDGE_END + 1)..Len(c) :
                      c[k].selection_group = "best_of_worst"]_vars

\* C18 witness: a worker holds 30 candidates selected from a ranking of 40
\* tickers (its bottom quartile lies beyond rank 28), the last two tagged
\* best_of_worst.
C18_Witness ==
    \E w \in Selected :
        /\ Len(workers[w].scores) = 40
        /\ Len(workers[w].candidates) = 30
        /\ workers[w].candidates[29].selection_group = "best_of_worst"
        /\ workers[w].candidates[30].selection_group = "best_of_worst"
        /\ workers[w].candidates[23].selection_group = "top23"
        /\ workers[w].candidates[24].selection_group = "edge"

ItemTickers(items) == {items[k].ticker : k \in DOMAIN items}

\* C19: when the loop has ended with fewer than MIN_BUY BUY verdicts among at
\* least MIN_BUY candidates, final_buys.json gets exactly MIN_BUY items: every
\* original BUY, and otherwise HOLDs marked as promoted, none of them ranking
\* below a HOLD that was left out.
C19_PromotionFillsToMin ==
    [][\A w \in WorkerIds :
          (/\ w \in DebateWorkers /\ workers[w].pc = "promote"
           /\ workers'[w] # workers[w]
           /\ Len(workers[w].candidates) >= MIN_BUY
           /\ Len(workers[w].summary.buy) < MIN_BUY)
          => LET before == workers[w].summary
                 items == Val(finalBuys')
             IN /\ Len(items) = MIN_BUY
                /\ SeqToSet(before.buy) \subseteq ItemTickers(items)
                /\ \A k \in DOMAIN items :
                      items[k].ticker \notin SeqToSet(before.buy)
                      => /\ items[k].ticker \in SeqToSet(before.hold)
                         /\ items[k].promoted
                         /\ \A t \in SeqToSet(before.hold) \ ItemTickers(items) :
                               ~Before(before.byTicker[t], items[k], "conviction")]_vars

\* C20: when the loop has ended with more than MAX_BUY BUY verdicts,
\* final_buys.json gets exactly MAX_BUY items, all of them BUY candidates and
\* pairwise distinct, no BUY that was left out ranks above one of them by
\* (confidence, score), and every BUY left out is still BUY in the worker's
\* summary and in debate_summary.json.
C20_CapKeepsBestAndVerdicts ==
    [][\A w \in WorkerIds :
          (/\ w \in DebateWorkers /\ workers[w].pc = "promote"
           /\ workers'[w] # workers[w]
           /\ Len(workers[w].summary.buy) > MAX_BUY)
          => LET before == workers[w].summary
                 items == Val(finalBuys')
             IN /\ Len(items) = MAX_BUY
                /\ DistinctTickers(items)
                /\ \A k \in DOMAIN items :
                      /\ items[k].ticker \in SeqToSet(before.buy)
                      /\ items[k].verdict = "BUY"
                /\ \A t \in SeqToSet(before.buy) \ ItemTickers(items) :
                      /\ \A k \in DOMAIN items :
                            ~Before(before.byTicker[t], items[k], "conviction")
                      /\ workers'[w].summary.byTicker[t].verdict = "BUY"
                      /\ t \in SeqToSet(workers'[w].summary.buy)
                      /\ IsSome(summaryJson')
                      /\ Val(summaryJson').byTicker[t].verdict = "BUY"]_vars

\* C20 witness: the debate has ended with more than MAX_BUY BUYs in the summary
\* and final_buys.json holds MAX_BUY items.
C20_Witness ==
    /\ status.stage = "debate_ready"
    /\ IsSome(summaryJson) /\ IsSome(finalBuys)
    /\ Len(Val(summaryJson).buy) > MAX_BUY
    /\ Len(Val(finalBuys)) = MAX_BUY
    /\ \E t \in SeqToSet(Val(summaryJson).buy) :
          /\ t \notin ItemTickers(Val(finalBuys))
          /\ Val(summaryJson).byTicker[t].verdict = "BUY"

\* The case of C21: the debate loop has ended over 30 candidates and the
\* analysis returned BUY with confidence 80 for every one of them.
AllBuyCandidates == EDGE_END + BEST_OF_WORST_N

AllBuyAt80 ==
    /\ IsSome(summaryJson)
    /\ Len(Val(summaryJson).buy) = AllBuyCandidates
    /\ Val(summaryJson).hold = <<>>
    /\ Val(summaryJson).sell = <<>>
    /\ \A k \in DOMAIN Val(summaryJson).buy :
          LET e == Val(summaryJson).byTicker[Val(summaryJson).buy[k]]
          IN e.verdict = "BUY" /\ e.confidence = 80

\* The optimize jobs that have loaded their eligible tickers.
OptimizeLoaded == {w \in WorkerIds : workers[w].kind = "optimize"
                                      /\ workers[w].pc \in {"solve", "final"}}

\* C21 as stated: with 30 candidates that all got BUY with confidence 80, no
\* candidate is promoted and the eligible set of the optimize stage is that
\* 30-member set.
C21_EligibleIsAllThirty ==
    AllBuyAt80 =>
        \A w \in OptimizeLoaded :
            /\ Len(workers[w].eligible) = AllBuyCandidates
            /\ SeqToSet(workers[w].eligible) = SeqToSet(Val(summaryJson).buy)

\* C21, amended: with 30 candidates that all got BUY with confidence 80, the
\* debate stage ends with 30 BUYs and no promoted candidate, and the eligible
\* set of the optimize stage is the items of final_buys.json: MAX_BUY of those 30
\* BUYs, none of the BUYs left out having a higher score than one that is kept.
C21_EligibleIsBestTwelveOfThirty ==
    AllBuyAt80 =>
        /\ \A w \in WorkerIds :
              (workers[w].kind = "debate" /\ workers[w].pc = "final")
              => /\ Len(workers[w].summary.buy) = AllBuyCandidates
                 /\ \A t \in DOMAIN workers[w].summary.byTicker :
                       ~workers[w].summary.byTicker[t].promoted
        /\ IsSome(finalBuys) =>
              \A k \in DOMAIN Val(finalBuys) : ~Val(finalBuys)[k].promoted
        /\ \A w \in OptimizeLoaded :
              LET eligible == workers[w].eligible
                  buys == Val(summaryJson).buy
                  byTicker == Val(summaryJson).byTicker
              IN /\ IsSome(finalBuys)
                 /\ eligible = [k \in DOMAIN Val(finalBuys) |-> Val(finalBuys)[k].ticker]
                 /\ Len(eligible) = MAX_BUY
                 /\ SeqToSet(eligible) \subseteq SeqToSet(buys)
                 /\ \A t \in SeqToSet(buys) \ SeqToSet(eligible) :
                       \A k \in DOMAIN eligible :
                           byTicker[t].rocket_score <= byTicker[eligible[k]].rocket_score

\* C21 witness: 30 candidates all got BUY with confidence 80, the stage is over
\* with nobody promoted, and an optimize job holds its eligible tickers.
C21_Witness ==
    /\ AllBuyAt80
    /\ IsSome(finalBuys)
    /\ \A k \in DOMAIN Val(finalBuys) : ~Val(finalBuys)[k].promoted
    /\ \E w \in OptimizeLoaded : Len(workers[w].eligible) = MAX_BUY
    /\ \E w \in WorkerIds : workers[w] = Finished("debate")

\* Totals of a returned portfolio.
TotalWeight(p) == SumOf([k \in DOMAIN p.allocations |-> p.allocations[k].weight])
TotalCents(p) == SumOf([k \in DOMAIN p.allocations |-> p.allocations[k].cents])
SectorWeight(p, sector) ==
    SumOf([k \in DOMAIN p.allocations |->
              IF p.allocations[k].sector = sector THEN p.allocations[k].weight ELSE 0])

OptimizeParams == {workers[w].params : w \in {v \in WorkerIds : workers[v].kind = "optimize"
                                                               /\ workers[v].pc = "final"}}

\* C22: the returned allocation, CVXPY or fallback, has weights summing to at
\* most 1, dollars summing to at most the capital, no weight above max_weight
\* and no sector's weights above sector_cap.
C22_AllocationWithinCaps ==
    \A params \in OptimizeParams :
        LET p == Val(portfolio) IN
        /\ TotalWeight(p) <= WEIGHT_UNITS
        /\ TotalCents(p) <= params.capital * CENTS
        /\ \A k \in DOMAIN p.allocations :
              /\ p.allocations[k].weight * PERCENT <= params.max_weight * WEIGHT_UNITS
              /\ SectorWeight(p, p.allocations[k].sector) * PERCENT
                     <= params.sector_cap * WEIGHT_UNITS

\* How often a ticker is listed in skipped.json.
Occurrences(list, t) == Cardinality({k \in DOMAIN list : list[k] = t})

\* C23: a skip request for a ticker that is in the skipped set already, in any
\* spelling and with any reason, is accepted and answered 200, and leaves
\* skipped.json listing that ticker exactly once and every other ticker as before.
C23_RepeatedSkipKeepsOneEntry ==
    [][/\ \A raw \in AnySkipInputs, reason \in SkipReasons :
             (SkipRequest(raw, reason) /\ SkipTickerOf(raw) \in ReadSkippedSet)
             => /\ IsSome(skipReq')
                /\ Occurrences(skippedJson'.tickers, SkipTickerOf(raw)) = 1
                /\ ReadSkippedSet' = ReadSkippedSet
                /\ \A t \in ReadSkippedSet :
                      Occurrences(skippedJson'.tickers, t)
                          = Occurrences(skippedJson.tickers, t)
       /\ SkipFinish => resp' = [req |-> "skip", code |-> 200]]_vars

\* C23 witness: a second skip of ticker A, with another reason, has passed
\* add_skipped (the status it read lists A already) and skipped.json lists A once.
C23_Witness ==
    /\ IsSome(skipReq)
    /\ Val(skipReq).ticker = "A"
    /\ IsSome(Val(skipReq).snapshot.skipped)
    /\ "A" \in Val(Val(skipReq).snapshot.skipped)
    /\ skippedJson.reasons["A"] = "manual"
    /\ Occurrences(skippedJson.tickers, "A") = 1

\* C24: the skipped set only grows: whatever the step (skip request, stage
\* trigger, worker step), a ticker a read of the skipped set returns is returned
\* by a read after the step.
C24_SkippedSetOnlyGrows ==
    [][ReadSkippedSet \subseteq ReadSkippedSet']_vars

\* C24 witness: the set has grown twice and the debate loop, which read it, has
\* published both tickers in its status.
C24_Witness ==
    /\ ReadSkippedSet = {"A", "B"}
    /\ status.stage = "debate"
    /\ status.skipped = Some({"A", "B"})

\* The tickers a status response lists as skipped.
ListedSkipped(st) == IF IsSome(st.skipped) THEN Val(st.skipped) ELSE {}

\* C25: when skip_ticker returns, the status response and the skipped set the
\* debate engine reads hold the ticker, and from then on every step (also a
\* status write of the engine that carries no skipped list) leaves it in both.
C25_SkipVisibleAtOnce ==
    [][/\ SkipFinish
          => /\ Val(skipReq).ticker \in ListedSkipped(StatusResponse')
             /\ Val(skipReq).ticker \in ReadSkippedSet'
       /\ \A t \in ReadSkippedSet :
             /\ t \in ReadSkippedSet'
             /\ t \in ListedSkipped(StatusResponse) => t \in ListedSkipped(StatusResponse')]_vars

\* C25 witness: a skip of A has returned, the engine has since written a status
\* without a skipped list, and the status response still lists A.
C25_Witness ==
    /\ skipReq = None
    /\ "A" \in ReadSkippedSet
    /\ status.stage = "debate"
    /\ status.skipped = None
    /\ "A" \in ListedSkipped(StatusResponse)

\* C26: a skip request for an unknown run is answered 404 and changes neither
\* the skipped set nor the status; for a known run it is accepted, whatever
\* ticker and reason it carries and whatever the stage, and answered 200.
C26_SkipNotFoundOrSucceeds ==
    [][/\ \A raw \in AnySkipInputs, reason \in SkipReasons :
             SkipRequest(raw, reason)
             => IF status.stage = "none"
                THEN /\ resp' = [req |-> "skip", code |-> 404]
                     /\ skippedJson' = skippedJson
                     /\ status' = status
                ELSE IsSome(skipReq')
       /\ SkipFinish => resp' = [req |-> "skip", code |-> 200]]_vars

\* A context-assembly, role or aggregation call of the job is outstanding.
CallOutstanding(w) ==
    /\ workers[w].kind = "debate"
    /\ \/ workers[w].pc = "news"
       \/ workers[w].pc = "fanout" /\ \E r \in Roles : workers[w].roles[r] = "outstanding"
       \/ workers[w].pc = "judge_call" /\ workers[w].jst = "outstanding"

\* C27: while a call for one candidate of the run is outstanding, no call for a
\* different candidate of the run is outstanding.
C27_OneCandidateAtATime ==
    \A w1, w2 \in WorkerIds :
        (CallOutstanding(w1) /\ CallOutstanding(w2))
        => CurTicker(workers[w1]) = CurTicker(workers[w2])

AtAggregation(w) ==
    /\ workers[w].kind = "debate"
    /\ workers[w].pc \in {"judge_status", "judge_gate", "judge_call", "single_done"}

\* C30: the aggregation of a candidate starts only when each of its four role
\* calls has ended (answered, failed, timed out or cancelled by a skip): no role
\* call of the candidate is outstanding while the judge is started or outstanding.
C30_AggregationAfterAllRoles ==
    \A w \in WorkerIds :
        AtAggregation(w)
        => /\ AllEnded(workers[w])
           /\ \A r \in Roles : workers[w].roles[r] # "outstanding"

\* C30 witness: the judge's request is outstanding after a fan-out in which one
\* role answered and another failed.
C30_Witness ==
    \E w \in WorkerIds :
        /\ AtAggregation(w)
        /\ workers[w].pc = "judge_call" /\ workers[w].jst = "outstanding"
        /\ \E r1, r2 \in Roles : workers[w].roles[r1] = "ok" /\ workers[w].roles[r2] = "stub"

\* The list a call of get_sp500_tickers has returned.
Returned(w) == workers[w].kind = "sp500" /\ workers[w].pc = "returned"

\* The symbols are pairwise distinct, upper case, free of dots and non-empty.
CleanSymbols(tickers) ==
    /\ \A i, j \in DOMAIN tickers : i # j => tickers[i] # tickers[j]
    /\ \A k \in DOMAIN tickers :
          /\ tickers[k] = StrUpper(tickers[k])
          /\ \A c \in DOMAIN tickers[k] : tickers[k][c] # "."
          /\ StrStrip(tickers[k]) # <<>>

\* C29: a call of get_sp500_tickers that returns, from either source, returns
\* more than 450 symbols, pairwise distinct, upper case, without a dot and
\* none of them empty.
C29_ReturnedListIsCleanAndLong ==
    \A w \in WorkerIds :
        Returned(w)
        => /\ Len(workers[w].tickers) > MIN_TICKERS
           /\ CleanSymbols(workers[w].tickers)

\* The job is at one of the two checkpoints: after the news fetch, or after
\* gather has returned the four results.
AtCheckpoint(w) ==
    /\ workers[w].kind = "debate"
    /\ \/ workers[w].pc = "after_news"
       \/ workers[w].pc = "fanout" /\ AllEnded(workers[w])

\* C31: a checkpoint that finds the candidate in the skipped set raises the skip
\* and starts nothing; the raised skip ends the slot with the skipped marker;
\* and no role or aggregation request is ever posted for a ticker that is in
\* the skipped set.
C31_CheckpointSkipStartsNoCall ==
    [][/\ \A w \in WorkerIds :
             (/\ AtCheckpoint(w) /\ CurTicker(workers[w]) \in ReadSkippedSet
              /\ workers'[w] # workers[w])
             => /\ workers'[w].pc = "except" /\ workers'[w].err = SKIP_MSG
                /\ calls' = calls
       /\ \A w \in WorkerIds :
             (/\ workers[w].kind = "debate" /\ workers[w].pc = "except"
              /\ workers[w].err = SKIP_MSG /\ workers'[w] # workers[w])
             => /\ <<CurTicker(workers[w]), "skipped">> \in debateFiles'
                /\ <<CurTicker(workers[w]), "debate">> \notin debateFiles'
                /\ calls' = calls
       /\ \A t \in Tickers :
             t \in ReadSkippedSet
             => \A r \in Roles \cup {"judge"} : calls'[t][r] = calls[t][r]]_vars

\* C31 witness: A was found skipped after its context assembly (no role was
\* called for it) and B after its fan-in (its four roles were called, the judge
\* was not); both carry the skipped marker.
C31_Witness ==
    /\ <<"A", "skipped">> \in debateFiles /\ <<"B", "skipped">> \in debateFiles
    /\ calls["A"]["news"] = 1 /\ \A r \in Roles \cup {"judge"} : calls["A"][r] = 0
    /\ \A r \in Roles : calls["B"][r] = 1
    /\ calls["B"]["judge"] = 0

\* C32: in one execution of the debate stage no role and no aggregator request
\* is posted twice for a candidate, whether the first request was answered,
\* failed or timed out. The requests are counted per run, so the count is that
\* of one execution as long as the run has had one debate job.
C32_EachCalleeAtMostOnce ==
    NumOfKind("debate") = 1 =>
        \A t \in Tickers : \A c \in Roles \cup {"judge"} : calls[t][c] <= 1

\* C32 witness: a candidate's debate has its judge result in hand after a role
\* request and the judge request both failed; each was posted once.
C32_Witness ==
    \E w \in WorkerIds :
        /\ workers[w].kind = "debate" /\ workers[w].pc = "single_done"
        /\ workers[w].jst = "stub"
        /\ \E r \in Roles : workers[w].roles[r] = "stub"
        /\ \A c \in Roles \cup {"judge"} : calls[CurTicker(workers[w])][c] = 1

\* The per-candidate artifacts of a ticker under debate/.
ResultFiles(files, t) == {kind \in {"debate", "skipped", "error"} : <<t, kind>> \in files}

\* C33: once a candidate has its entry in the summary, no later step of the
\* debate job changes the entry's verdict, confidence or skipped flag, or the
\* candidate's artifacts under debate/.
C33_CompletedResultIsFrozen ==
    [][\A w \in WorkerIds :
          (/\ workers[w].kind = "debate" /\ "summary" \in DOMAIN workers[w]
           /\ w \in DOMAIN workers' /\ "summary" \in DOMAIN workers'[w])
          => \A t \in DOMAIN workers[w].summary.byTicker :
                LET old == workers[w].summary.byTicker[t]
                    new == workers'[w].summary.byTicker[t]
                IN /\ new.verdict = old.verdict
                   /\ new.confidence = old.confidence
                   /\ new.skipped = old.skipped
                   /\ ResultFiles(debateFiles', t) = ResultFiles(debateFiles, t)]_vars

\* A debate job is in the pool and has not finished.
DebateJobPending ==
    \E w \in WorkerIds : workers[w].kind = "debate" /\ workers[w].pc # "finished"

\* Every debate job has finished, which it does by writing debate_ready or error.
DebateJobsFinished ==
    \A w \in WorkerIds : workers[w].kind = "debate" => workers[w].pc = "finished"

\* C34: a debate job that was submitted eventually finishes (its last step is
\* the write of debate_ready or of error), whatever skip requests arrive while
\* it runs.
C34_DebateStageTerminates == DebateJobPending ~> DebateJobsFinished

\* C34 witness: the job has finished with debate_ready after a skip request
\* arrived during the debate of a candidate.
C34_Witness ==
    /\ \E w \in WorkerIds : workers[w].kind = "debate" /\ workers[w].pc = "finished"
    /\ status.stage = "debate_ready"
    /\ ReadSkippedSet # {}
    /\ \E t \in ReadSkippedSet : calls[t]["news"] = 1

\* The fallback CSV fails: no file, or fewer than 450 symbols in it.
FallbackFails(me) == ~me.csv_exists \/ Len(CleanCsv(me.column)) < MIN_TICKERS

\* C35: the primary source is tried at most three times; the fallback is tried
\* only after three failed attempts; the list returned is that of the source
\* that succeeded first; RuntimeError is raised exactly when the three attempts
\* and the fallback have all failed.
C35_PrimaryThriceThenFallback ==
    [][\A w \in WorkerIds :
          (workers[w].kind = "sp500" /\ workers'[w] # workers[w])
          => LET me == workers[w]
                 after == workers'[w]
             IN /\ after.failed <= MAX_RETRIES
                /\ me.pc = "wikipedia" => me.failed < MAX_RETRIES
                /\ after.pc = "fallback" => after.failed = MAX_RETRIES
                /\ me.pc = "fallback"
                   => /\ me.failed = MAX_RETRIES
                      /\ after.pc = (IF FallbackFails(me) THEN "raised" ELSE "returned")
                /\ after.pc = "raised" => me.pc = "fallback"
                /\ after.pc = "returned"
                   => \/ /\ me.pc = "wikipedia" /\ after.source = "wikipedia"
                         /\ after.tickers = CleanWikipedia(me.column)
                      \/ /\ me.pc = "fallback" /\ after.source = "csv"
                         /\ after.tickers = CleanCsv(me.column)]_vars

\* C35 witness: the list of the fallback CSV has been returned after three
\* failed attempts at the primary source.
C35_Witness ==
    \E w \in WorkerIds :
        /\ workers[w].kind = "sp500" /\ workers[w].pc = "returned"
        /\ workers[w].source = "csv" /\ workers[w].failed = MAX_RETRIES

\* C36: the persisted status carries a non-empty errors list exactly when its
\* stage is error, also after a skip request has rewritten it.
C36_ErrorsIffErrorStage ==
    status.stage # "none" => (status.errors # <<>> <=> status.stage = "error")

\* C36 witness: a skip request has rewritten the status of a run that ended in
\* error; the errors list is still there.
C36_Witness ==
    /\ status.stage = "error" /\ status.errors # <<>>
    /\ status.skipped # None
    /\ resp = [req |-> "skip", code |-> 200]

\* C37: the write of status.json that ends a skip request leaves the persisted
\* stage and progress.done as the workers last wrote them; a skip request never
\* takes either of them back.
C37_SkipKeepsStageAndDone ==
    [][(IsSome(skipReq) /\ skipReq' = None) =>
           /\ status'.stage = status.stage
           /\ status'.done = status.done]_vars

\* C38: no item of final_buys.json carries the skipped marker: a candidate whose
\* debate ended as skipped never reaches the final buys, neither by promotion
\* nor by padding.
C38_NoSkippedFinalBuy ==
    IsSome(finalBuys) => \A k \in DOMAIN Val(finalBuys) : ~Val(finalBuys)[k].skipped

\* The summaries of the debate jobs, between slots and after promotion.
Summaries ==
    {workers[w].summary : w \in {v \in WorkerIds : /\ workers[v].kind = "debate"
                                                   /\ "summary" \in DOMAIN workers[v]}}

\* The buy, hold and sell lists partition the keys of byTicker, and every
\* skipped identifier has an entry with the skipped marker.
Partitioned(summary) ==
    /\ SeqToSet(summary.buy) \cap SeqToSet(summary.hold) = {}
    /\ SeqToSet(summary.buy) \cap SeqToSet(summary.sell) = {}
    /\ SeqToSet(summary.hold) \cap SeqToSet(summary.sell) = {}
    /\ SeqToSet(summary.buy \o summary.hold \o summary.sell) = DOMAIN summary.byTicker
    /\ \A k \in DOMAIN summary.skipped :
          /\ summary.skipped[k] \in DOMAIN summary.byTicker
          /\ summary.byTicker[summary.skipped[k]].skipped

\* C39: after every candidate slot and after promotion, buy, hold and sell are
\* pairwise disjoint, their union is the set of keys of byTicker, and every
\* skipped identifier is a key of byTicker whose entry has skipped = true.
C39_SummaryListsPartition == \A summary \in Summaries : Partitioned(summary)

\* C40: two create-run requests receive different run ids, so no two scoring
\* jobs write the status and the artifacts of the same run.
C40_RunIdsDiffer ==
    \A v, w \in WorkerIds : v # w => workers[v].run_id # workers[w].run_id
====
